---------------------------- MODULE Spec2Model ----------------------------
(***************************************************************************)
(* ghdiff: the unified-diff parser (internal/diff/parser.go) and the       *)
(* split-view line aligner (web/js/app.js, renderHunkSplit).               *)
(*                                                                         *)
(* Lines of input are TLA+ strings; the parser's regular expressions and   *)
(* string functions are operators over those strings, so that a line is    *)
(* classified by its text exactly as the Go code classifies it.  Parse is  *)
(* a small-step machine over a parser-state record (one operator per loop  *)
(* of the source, one application per loop iteration); Parse(input) runs   *)
(* it to completion.                                                       *)
(***************************************************************************)
EXTENDS Integers, Sequences, FiniteSets, TLC

VARIABLES
    input,      \* the string handed to Parse
    pc,         \* "ready" before the call, "parsed" after it returned
    ret,        \* what Parse returned: [result |-> ..., err |-> ...]
    hunk,       \* the hunk last handed to renderHunkSplit
    rpc,        \* "ready" before any renderHunkSplit call, "rendered" after
    tbody,      \* the rows that call appended to the table body
    pstate,     \* the parser state of a Parse call that runs step by step
    sstate,     \* the cursor and rows of a renderHunkSplit call that does
    iters,      \* how many loop iterations the call under way has run
    server,     \* the Server that New returned
    http,       \* the request last served, its response and what it ran
    calls,      \* the Parse invocations that run side by side
    browser     \* the page: its pickers, requests in flight and display

parserVars == <<input, pc, ret>>
splitVars == <<hunk, rpc, tbody>>
stepVars == <<pstate, sstate, iters>>
pipeVars == <<input, pc, ret, hunk, rpc, tbody, pstate, sstate, iters>>
sysVars == <<server, http, calls, browser>>
vars == <<input, pc, ret, hunk, rpc, tbody, pstate, sstate, iters,
          server, http, calls, browser>>

-----------------------------------------------------------------------------
(* Bounds of the model.                                                    *)

\* longest input, in lines, that Spec draws
MaxLines == 4
\* longest input, in lines, that SpecNum draws
MaxNumLines == 4
\* longest input, in lines, that SpecHeader draws
MaxHeadLines == 4
\* longest hunk body, in lines, that SpecSplit draws
MaxBody == 5
\* longest input, in lines, that SpecBinary draws
MaxBinLines == 4
\* longest input, in lines, that SpecHunkHeader draws
MaxHdrLines == 4
\* most lines that SpecBody draws after the first hunk header
MaxTail == 3
\* longest input, in lines, that SpecZero draws
MaxZeroLines == 4
\* most lines that SpecSteps draws after the first diff header
MaxStepTail == 2
\* how many Parse invocations SpecCalls runs side by side
MaxCalls == 2
\* how many picker changes SpecBrowser makes
MaxChanges == 2

-----------------------------------------------------------------------------
(* Strings: Go's strings package, as far as the parser uses it.            *)

Max(S) == CHOOSE x \in S : \A y \in S : y <= x
Min(S) == CHOOSE x \in S : \A y \in S : x <= y

SeqsUpTo(S, n) == UNION {[1..k -> S] : k \in 0..n}

\* the characters of s at the 1-based positions a..b that s has
Sub(s, a, b) ==
    IF a > b \/ a > Len(s) \/ b < 1 THEN ""
    ELSE SubSeq(s, IF a < 1 THEN 1 ELSE a, IF b > Len(s) THEN Len(s) ELSE b)

\* s[from:] of Go, with from counted from 0
From(s, from) == Sub(s, from + 1, Len(s))

\* the one-character string at 1-based position k ("" past the end)
CharAt(s, k) == Sub(s, k, k)

HasPrefix(s, p) == Len(s) >= Len(p) /\ Sub(s, 1, Len(p)) = p

HasSuffix(s, p) == Len(s) >= Len(p) /\ Sub(s, Len(s) - Len(p) + 1, Len(s)) = p

TrimPrefix(s, p) == IF HasPrefix(s, p) THEN From(s, Len(p)) ELSE s

IsSpace(c) == c \in {" ", "\t", "\n", "\r"}

TrimSpace(s) ==
    LET keep == {k \in 1..Len(s) : ~IsSpace(CharAt(s, k))}
    IN  IF keep = {} THEN "" ELSE Sub(s, Min(keep), Max(keep))

RECURSIVE Split(_, _)
\* strings.Split(s, sep) for a one-character separator
Split(s, sep) ==
    LET at == {k \in 1..Len(s) : CharAt(s, k) = sep}
    IN  IF at = {} THEN <<s>>
        ELSE <<Sub(s, 1, Min(at) - 1)>> \o Split(From(s, Min(at)), sep)

RECURSIVE Join(_, _)
\* strings.Join: the text whose lines are ls
Join(ls, sep) ==
    IF Len(ls) = 0 THEN ""
    ELSE IF Len(ls) = 1 THEN ls[1]
    ELSE ls[1] \o sep \o Join(Tail(ls), sep)

-----------------------------------------------------------------------------
(* strconv.Atoi on a string of decimal digits (the only strings the hunk   *)
(* header pattern captures).  It fails exactly when the value does not fit *)
(* a 64-bit int.  Values are computed for up to 9 digits (what the model   *)
(* checker's integers hold); the inputs drawn below have either at most 2  *)
(* significant digits or more than 19.                                     *)

IsDigit(c) == c \in {"0", "1", "2", "3", "4", "5", "6", "7", "8", "9"}

DigitVal(c) ==
    CASE c = "0" -> 0 [] c = "1" -> 1 [] c = "2" -> 2 [] c = "3" -> 3
      [] c = "4" -> 4 [] c = "5" -> 5 [] c = "6" -> 6 [] c = "7" -> 7
      [] c = "8" -> 8 [] c = "9" -> 9

\* decimal digits of the largest int: 2^63 - 1
MaxInt64Digits == "9223372036854775807"

RECURSIVE StripZeros(_)
StripZeros(s) == IF Len(s) > 1 /\ CharAt(s, 1) = "0" THEN StripZeros(Tail(s)) ELSE s

RECURSIVE DigitsGreater(_, _)
\* a > b for two digit strings of the same length
DigitsGreater(a, b) ==
    IF Len(a) = 0 THEN FALSE
    ELSE IF DigitVal(CharAt(a, 1)) # DigitVal(CharAt(b, 1))
         THEN DigitVal(CharAt(a, 1)) > DigitVal(CharAt(b, 1))
         ELSE DigitsGreater(Tail(a), Tail(b))

RECURSIVE DigitsValue(_)
DigitsValue(s) ==
    IF Len(s) = 0 THEN 0
    ELSE 10 * DigitsValue(Sub(s, 1, Len(s) - 1)) + DigitVal(CharAt(s, Len(s)))

OutOfRange(s) ==
    LET t == StripZeros(s)
    IN  \/ Len(t) > Len(MaxInt64Digits)
        \/ Len(t) = Len(MaxInt64Digits) /\ DigitsGreater(t, MaxInt64Digits)

Atoi(s) ==
    IF OutOfRange(s) THEN [val |-> 0, err |-> TRUE]
    ELSE [val |-> DigitsValue(StripZeros(s)), err |-> FALSE]

-----------------------------------------------------------------------------
(* The package-level patterns.  Each operator returns [ok, g]: whether the *)
(* line matches and the captured groups (FindStringSubmatch without the    *)
(* whole match; an optional group that took no part is "").                *)

NoMatch == [ok |-> FALSE, g |-> <<>>]

\* ^diff --git a/(.+) b/(.+)$   ((.+) is greedy: the last " b/" splits)
diffHeaderRe(s) ==
    LET r == From(s, 13)
        at == {k \in 2..(Len(r) - 3) : Sub(r, k, k + 2) = " b/"}
    IN  IF HasPrefix(s, "diff --git a/") /\ at # {}
        THEN [ok |-> TRUE,
              g |-> <<Sub(r, 1, Max(at) - 1), From(r, Max(at) + 2)>>]
        ELSE NoMatch

\* 1-based position of the first character at or after k that is no digit
RECURSIVE DigitsEnd(_, _)
DigitsEnd(s, k) ==
    IF k <= Len(s) /\ IsDigit(CharAt(s, k)) THEN DigitsEnd(s, k + 1) ELSE k

\* (\d+)(?:,(\d+))? starting at position k: [ok, a, b, next]
NumPair(s, k) ==
    LET e1 == DigitsEnd(s, k)
        e2 == DigitsEnd(s, e1 + 1)
    IN  IF e1 = k THEN [ok |-> FALSE, a |-> "", b |-> "", next |-> k]
        ELSE IF CharAt(s, e1) = "," /\ e2 > e1 + 1
             THEN [ok |-> TRUE, a |-> Sub(s, k, e1 - 1),
                   b |-> Sub(s, e1 + 1, e2 - 1), next |-> e2]
             ELSE [ok |-> TRUE, a |-> Sub(s, k, e1 - 1), b |-> "", next |-> e1]

\* ^@@ -(\d+)(?:,(\d+))? \+(\d+)(?:,(\d+))? @@(.*)$
hunkHeaderRe(s) ==
    IF ~HasPrefix(s, "@@ -") THEN NoMatch
    ELSE LET old == NumPair(s, 5)
         IN  IF ~old.ok \/ Sub(s, old.next, old.next + 1) # " +" THEN NoMatch
             ELSE LET new == NumPair(s, old.next + 2)
                  IN  IF ~new.ok \/ Sub(s, new.next, new.next + 2) # " @@"
                      THEN NoMatch
                      ELSE [ok |-> TRUE,
                            g |-> <<old.a, old.b, new.a, new.b,
                                    Sub(s, new.next + 3, Len(s))>>]

\* ^rename from (.+)$
renameFromRe(s) ==
    IF HasPrefix(s, "rename from ") /\ Len(s) > 12
    THEN [ok |-> TRUE, g |-> <<From(s, 12)>>] ELSE NoMatch

\* ^rename to (.+)$
renameToRe(s) ==
    IF HasPrefix(s, "rename to ") /\ Len(s) > 10
    THEN [ok |-> TRUE, g |-> <<From(s, 10)>>] ELSE NoMatch

\* ^Binary files (.+) and (.+) differ$   (greedy: the last " and " splits)
binaryRe(s) ==
    LET r == Sub(s, 14, Len(s) - 7)
        at == {k \in 2..(Len(r) - 5) : Sub(r, k, k + 4) = " and "}
    IN  IF HasPrefix(s, "Binary files ") /\ HasSuffix(s, " differ")
           /\ Len(s) >= 20 /\ at # {}
        THEN [ok |-> TRUE,
              g |-> <<Sub(r, 1, Max(at) - 1), From(r, Max(at) + 4)>>]
        ELSE NoMatch

-----------------------------------------------------------------------------
(* The diff model (types.go).  An int field left out of a Line literal is  *)
(* Go's zero value 0; Status "" is the unset status.                       *)

FileDiff(oldName, newName) ==
    [OldName |-> oldName, NewName |-> newName, Status |-> "",
     IsBinary |-> FALSE, Hunks |-> <<>>]

Line(type, content, oldNum, newNum) ==
    [Type |-> type, Content |-> content, OldNum |-> oldNum, NewNum |-> newNum]

NoFile == FileDiff("", "")
NoHunk == [OldStart |-> 0, OldLines |-> 0, NewStart |-> 0, NewLines |-> 0,
           Header |-> "", Lines |-> <<>>]

\* the returned pair: a nil *DiffResult is [nil |-> TRUE], a nil error is ""
Returned(files) == [result |-> [nil |-> FALSE, Files |-> files], err |-> ""]
Failed(msg) == [result |-> [nil |-> TRUE, Files |-> <<>>], err |-> msg]

-----------------------------------------------------------------------------
(* parseFileName: the name of a "--- " or "+++ " line value.               *)

parseFileName(s0) ==
    LET s == TrimSpace(s0)
    IN  IF s = "/dev/null" THEN "/dev/null"
        ELSE IF HasPrefix(s, "a/") \/ HasPrefix(s, "b/") THEN From(s, 2)
        ELSE s

-----------------------------------------------------------------------------
(* The parser state: which loop of Parse/parseHunk runs next, the cursor i *)
(* (counted from 0, as in the source), the file and hunk under             *)
(* construction, parseHunk's two counters, and the files appended so far.  *)

ParserStart ==
    [loop |-> "files", i |-> 0, file |-> NoFile, hunk |-> NoHunk,
     oldNum |-> 0, newNum |-> 0, files |-> <<>>, err |-> ""]

\* FilesIter with the file variable declared outside the loop: a new diff
\* header renames it and keeps the status and hunks of the file before.
FilesIter_KeepsFile(lines, ps) ==
    IF ~(ps.i < Len(lines)) THEN [ps EXCEPT !.loop = "return"]
    ELSE LET m == diffHeaderRe(lines[ps.i + 1])
         IN  IF ~m.ok THEN [ps EXCEPT !.i = @ + 1]
             ELSE [ps EXCEPT !.file.OldName = m.g[1], !.file.NewName = m.g[2],
                             !.i = @ + 1, !.loop = "header"]

\* One iteration of the outer loop of Parse: look for a diff header.
FilesIter(lines, ps) ==
    IF ~(ps.i < Len(lines)) THEN [ps EXCEPT !.loop = "return"]
    ELSE LET m == diffHeaderRe(lines[ps.i + 1])
         IN  IF ~m.ok THEN [ps EXCEPT !.i = @ + 1]
             ELSE [ps EXCEPT !.file = FileDiff(m.g[1], m.g[2]),
                             !.i = @ + 1, !.loop = "header"]

\* The "Binary files" branch of the extended-header loop.
BinaryBranch(ps, bm) ==
    LET oldSide == bm.g[1]
        newSide == bm.g[2]
        f1 == [ps.file EXCEPT !.IsBinary = TRUE]
        f2 == IF oldSide = "/dev/null"
              THEN [f1 EXCEPT !.OldName = "/dev/null", !.Status = "added"]
              ELSE [f1 EXCEPT !.OldName = TrimPrefix(oldSide, "a/")]
        f3 == IF newSide = "/dev/null"
              THEN [f2 EXCEPT !.NewName = "/dev/null", !.Status = "deleted"]
              ELSE [f2 EXCEPT !.NewName = TrimPrefix(newSide, "b/")]
        f4 == IF f3.Status = "" THEN [f3 EXCEPT !.Status = "modified"] ELSE f3
    IN  [ps EXCEPT !.file = f4, !.i = @ + 1, !.loop = "hunks"]

\* StatusFromNames with the two /dev/null cases in the other order.
StatusFromNames_NewFirst(f) ==
    IF f.Status # "" THEN f.Status
    ELSE IF f.NewName = "/dev/null" THEN "deleted"
    ELSE IF f.OldName = "/dev/null" THEN "added"
    ELSE "modified"

\* The status a "--- " / "+++ " pair gives a file whose status is unset.
StatusFromNames(f) ==
    IF f.Status # "" THEN f.Status
    ELSE IF f.OldName = "/dev/null" THEN "added"
    ELSE IF f.NewName = "/dev/null" THEN "deleted"
    ELSE "modified"

\* MinusBranch that never reads the "+++ " line after the "--- " line.
MinusBranch_OldOnly(lines, ps, line) ==
    LET f1 == [ps.file EXCEPT !.OldName = parseFileName(From(line, 4))]
    IN  [ps EXCEPT !.file = [f1 EXCEPT !.Status = StatusFromNames(f1)],
                   !.i = @ + 1, !.loop = "hunks"]

\* The "--- " branch of the extended-header loop.
MinusBranch(lines, ps, line) ==
    LET f1 == [ps.file EXCEPT !.OldName = parseFileName(From(line, 4))]
        i1 == ps.i + 1
        plus == i1 < Len(lines) /\ HasPrefix(lines[i1 + 1], "+++ ")
        f2 == IF plus
              THEN [f1 EXCEPT !.NewName = parseFileName(From(lines[i1 + 1], 4))]
              ELSE f1
        i2 == IF plus THEN i1 + 1 ELSE i1
    IN  [ps EXCEPT !.file = [f2 EXCEPT !.Status = StatusFromNames(f2)],
                   !.i = i2, !.loop = "hunks"]

\* One iteration of the extended-header loop of Parse.
HeaderIter(lines, ps) ==
    IF ~(ps.i < Len(lines)) THEN [ps EXCEPT !.loop = "hunks"]
    ELSE LET line == lines[ps.i + 1]
         IN  IF HasPrefix(line, "diff --git ") THEN [ps EXCEPT !.loop = "hunks"]
             ELSE IF renameFromRe(line).ok
             THEN [ps EXCEPT !.file.OldName = renameFromRe(line).g[1],
                             !.file.Status = "renamed", !.i = @ + 1]
             ELSE IF renameToRe(line).ok
             THEN [ps EXCEPT !.file.NewName = renameToRe(line).g[1],
                             !.file.Status = "renamed", !.i = @ + 1]
             ELSE IF binaryRe(line).ok THEN BinaryBranch(ps, binaryRe(line))
             ELSE IF HasPrefix(line, "--- ") THEN MinusBranch(lines, ps, line)
             ELSE IF HasPrefix(line, "@@ ") THEN [ps EXCEPT !.loop = "hunks"]
             ELSE [ps EXCEPT !.i = @ + 1]

\* DefaultStatus without the default.
DefaultStatus_Keeps(f) == f

\* The file as appended to result.Files: the status defaults to modified.
DefaultStatus(f) == IF f.Status = "" THEN [f EXCEPT !.Status = "modified"] ELSE f

\* hunkHeaderErr with the error of the last conversion dropped.
hunkHeaderErr_IgnoresNewLines(hm) ==
    IF Atoi(hm[1]).err THEN "invalid old start"
    ELSE IF hm[2] # "" /\ Atoi(hm[2]).err THEN "invalid old lines"
    ELSE IF Atoi(hm[3]).err THEN "invalid new start"
    ELSE ""

\* The error of parseHunk's four conversions, "" when all succeed.
hunkHeaderErr(hm) ==
    IF Atoi(hm[1]).err THEN "invalid old start"
    ELSE IF hm[2] # "" /\ Atoi(hm[2]).err THEN "invalid old lines"
    ELSE IF Atoi(hm[3]).err THEN "invalid new start"
    ELSE IF hm[4] # "" /\ Atoi(hm[4]).err THEN "invalid new lines"
    ELSE ""

\* hunkHeaderText that appends the trailing text as captured, untrimmed.
hunkHeaderText_Untrimmed(hm) ==
    "@@ -" \o hm[1] \o (IF hm[2] # "" THEN "," \o hm[2] ELSE "")
    \o " +" \o hm[3] \o (IF hm[4] # "" THEN "," \o hm[4] ELSE "")
    \o " @@" \o (IF hm[5] # "" THEN " " \o hm[5] ELSE "")

\* The header string parseHunk rebuilds from the captured groups.
hunkHeaderText(hm) ==
    "@@ -" \o hm[1] \o (IF hm[2] # "" THEN "," \o hm[2] ELSE "")
    \o " +" \o hm[3] \o (IF hm[4] # "" THEN "," \o hm[4] ELSE "")
    \o " @@" \o (IF TrimSpace(hm[5]) # "" THEN " " \o TrimSpace(hm[5]) ELSE "")

\* hunkOfHeader whose counts start from the zero value instead of 1.
hunkOfHeader_ZeroDefault(hm) ==
    [OldStart |-> Atoi(hm[1]).val,
     OldLines |-> IF hm[2] # "" THEN Atoi(hm[2]).val ELSE 0,
     NewStart |-> Atoi(hm[3]).val,
     NewLines |-> IF hm[4] # "" THEN Atoi(hm[4]).val ELSE 0,
     Header |-> hunkHeaderText(hm),
     Lines |-> <<>>]

\* parseHunk up to its loop: the Hunk built from the header's groups.
hunkOfHeader(hm) ==
    [OldStart |-> Atoi(hm[1]).val,
     OldLines |-> IF hm[2] # "" THEN Atoi(hm[2]).val ELSE 1,
     NewStart |-> Atoi(hm[3]).val,
     NewLines |-> IF hm[4] # "" THEN Atoi(hm[4]).val ELSE 1,
     Header |-> hunkHeaderText(hm),
     Lines |-> <<>>]

\* HunksIter that steps over the "diff --git " line that ends the file block.
HunksIter_SkipsDiffLine(lines, ps) ==
    IF ~(ps.i < Len(lines))
    THEN [ps EXCEPT !.files = Append(@, DefaultStatus(ps.file)), !.loop = "files"]
    ELSE IF HasPrefix(lines[ps.i + 1], "diff --git ")
    THEN [ps EXCEPT !.files = Append(@, DefaultStatus(ps.file)),
                    !.i = @ + 1, !.loop = "files"]
    ELSE LET hm == hunkHeaderRe(lines[ps.i + 1])
         IN  IF ~hm.ok THEN [ps EXCEPT !.i = @ + 1]
             ELSE IF hunkHeaderErr(hm.g) # ""
             THEN [ps EXCEPT !.err = hunkHeaderErr(hm.g), !.loop = "return"]
             ELSE [ps EXCEPT !.hunk = hunkOfHeader(hm.g),
                             !.oldNum = Atoi(hm.g[1]).val,
                             !.newNum = Atoi(hm.g[3]).val,
                             !.i = @ + 1, !.loop = "body"]

\* One iteration of the hunk loop of Parse, up to the entry of parseHunk's
\* loop; leaving the loop appends the file to result.Files.
HunksIter(lines, ps) ==
    IF ~(ps.i < Len(lines)) \/ HasPrefix(lines[ps.i + 1], "diff --git ")
    THEN [ps EXCEPT !.files = Append(@, DefaultStatus(ps.file)), !.loop = "files"]
    ELSE LET hm == hunkHeaderRe(lines[ps.i + 1])
         IN  IF ~hm.ok THEN [ps EXCEPT !.i = @ + 1]
             ELSE IF hunkHeaderErr(hm.g) # ""
             THEN [ps EXCEPT !.err = hunkHeaderErr(hm.g), !.loop = "return"]
             ELSE [ps EXCEPT !.hunk = hunkOfHeader(hm.g),
                             !.oldNum = Atoi(hm.g[1]).val,
                             !.newNum = Atoi(hm.g[3]).val,
                             !.i = @ + 1, !.loop = "body"]

\* HunkReturn that assigns the hunk to the file's list instead of appending.
HunkReturn_Overwrites(ps) ==
    [ps EXCEPT !.file.Hunks = <<ps.hunk>>, !.hunk = NoHunk,
               !.oldNum = 0, !.newNum = 0, !.loop = "hunks"]

\* parseHunk returns: Parse appends the hunk to the file.
HunkReturn(ps) ==
    [ps EXCEPT !.file.Hunks = Append(@, ps.hunk), !.hunk = NoHunk,
               !.oldNum = 0, !.newNum = 0, !.loop = "hunks"]

\* BodyLine whose context case forgets newNum++.
BodyLine_ContextOldOnly(ps, line) ==
    LET prefix == CharAt(line, 1)
        content == From(line, 1)
    IN  IF prefix = " "
        THEN [ps EXCEPT !.hunk.Lines =
                            Append(@, Line("context", content, ps.oldNum, ps.newNum)),
                        !.oldNum = @ + 1, !.i = @ + 1]
        ELSE IF prefix = "+"
        THEN [ps EXCEPT !.hunk.Lines = Append(@, Line("add", content, 0, ps.newNum)),
                        !.newNum = @ + 1, !.i = @ + 1]
        ELSE IF prefix = "-"
        THEN [ps EXCEPT !.hunk.Lines = Append(@, Line("delete", content, ps.oldNum, 0)),
                        !.oldNum = @ + 1, !.i = @ + 1]
        ELSE HunkReturn(ps)

\* BodyLine without the case '-': a delete line ends the hunk.
BodyLine_NoDeleteCase(ps, line) ==
    LET prefix == CharAt(line, 1)
        content == From(line, 1)
    IN  IF prefix = " "
        THEN [ps EXCEPT !.hunk.Lines =
                            Append(@, Line("context", content, ps.oldNum, ps.newNum)),
                        !.oldNum = @ + 1, !.newNum = @ + 1, !.i = @ + 1]
        ELSE IF prefix = "+"
        THEN [ps EXCEPT !.hunk.Lines = Append(@, Line("add", content, 0, ps.newNum)),
                        !.newNum = @ + 1, !.i = @ + 1]
        ELSE HunkReturn(ps)

\* BodyLine whose default case reports the line instead of ending the hunk.
BodyLine_UnknownFails(ps, line) ==
    LET prefix == CharAt(line, 1)
        content == From(line, 1)
    IN  IF prefix = " "
        THEN [ps EXCEPT !.hunk.Lines =
                            Append(@, Line("context", content, ps.oldNum, ps.newNum)),
                        !.oldNum = @ + 1, !.newNum = @ + 1, !.i = @ + 1]
        ELSE IF prefix = "+"
        THEN [ps EXCEPT !.hunk.Lines = Append(@, Line("add", content, 0, ps.newNum)),
                        !.newNum = @ + 1, !.i = @ + 1]
        ELSE IF prefix = "-"
        THEN [ps EXCEPT !.hunk.Lines = Append(@, Line("delete", content, ps.oldNum, 0)),
                        !.oldNum = @ + 1, !.i = @ + 1]
        ELSE [ps EXCEPT !.err = "unexpected line", !.loop = "return"]

\* BodyLine whose add case fills in both numbers, as the context case does.
BodyLine_AddKeepsOld(ps, line) ==
    LET prefix == CharAt(line, 1)
        content == From(line, 1)
    IN  IF prefix = " "
        THEN [ps EXCEPT !.hunk.Lines =
                            Append(@, Line("context", content, ps.oldNum, ps.newNum)),
                        !.oldNum = @ + 1, !.newNum = @ + 1, !.i = @ + 1]
        ELSE IF prefix = "+"
        THEN [ps EXCEPT !.hunk.Lines =
                            Append(@, Line("add", content, ps.oldNum, ps.newNum)),
                        !.newNum = @ + 1, !.i = @ + 1]
        ELSE IF prefix = "-"
        THEN [ps EXCEPT !.hunk.Lines = Append(@, Line("delete", content, ps.oldNum, 0)),
                        !.oldNum = @ + 1, !.i = @ + 1]
        ELSE HunkReturn(ps)

\* The switch on the prefix of a non-empty body line.
BodyLine(ps, line) ==
    LET prefix == CharAt(line, 1)
        content == From(line, 1)
    IN  IF prefix = " "
        THEN [ps EXCEPT !.hunk.Lines =
                            Append(@, Line("context", content, ps.oldNum, ps.newNum)),
                        !.oldNum = @ + 1, !.newNum = @ + 1, !.i = @ + 1]
        ELSE IF prefix = "+"
        THEN [ps EXCEPT !.hunk.Lines = Append(@, Line("add", content, 0, ps.newNum)),
                        !.newNum = @ + 1, !.i = @ + 1]
        ELSE IF prefix = "-"
        THEN [ps EXCEPT !.hunk.Lines = Append(@, Line("delete", content, ps.oldNum, 0)),
                        !.oldNum = @ + 1, !.i = @ + 1]
        ELSE HunkReturn(ps)

\* BodyIter without the no-newline case: the marker is an unknown prefix.
BodyIter_MarkerEndsHunk(lines, ps) ==
    IF ~(ps.i < Len(lines)) THEN HunkReturn(ps)
    ELSE LET line == lines[ps.i + 1]
         IN  IF HasPrefix(line, "@@ ") \/ HasPrefix(line, "diff --git ")
             THEN HunkReturn(ps)
             ELSE IF Len(line) = 0 THEN HunkReturn([ps EXCEPT !.i = @ + 1])
             ELSE BodyLine(ps, line)

\* BodyIter that steps over an empty line instead of ending the hunk.
BodyIter_EmptyContinues(lines, ps) ==
    IF ~(ps.i < Len(lines)) THEN HunkReturn(ps)
    ELSE LET line == lines[ps.i + 1]
         IN  IF HasPrefix(line, "@@ ") \/ HasPrefix(line, "diff --git ")
             THEN HunkReturn(ps)
             ELSE IF HasPrefix(line, "\\ No newline at end of file")
             THEN [ps EXCEPT !.i = @ + 1]
             ELSE IF Len(line) = 0 THEN [ps EXCEPT !.i = @ + 1]
             ELSE BodyLine(ps, line)

\* BodyIter whose no-newline case continues without advancing the cursor.
BodyIter_MarkerStays(lines, ps) ==
    IF ~(ps.i < Len(lines)) THEN HunkReturn(ps)
    ELSE LET line == lines[ps.i + 1]
         IN  IF HasPrefix(line, "@@ ") \/ HasPrefix(line, "diff --git ")
             THEN HunkReturn(ps)
             ELSE IF HasPrefix(line, "\\ No newline at end of file")
             THEN ps
             ELSE IF Len(line) = 0 THEN HunkReturn([ps EXCEPT !.i = @ + 1])
             ELSE BodyLine(ps, line)

\* One iteration of the loop of parseHunk.
BodyIter(lines, ps) ==
    IF ~(ps.i < Len(lines)) THEN HunkReturn(ps)
    ELSE LET line == lines[ps.i + 1]
         IN  IF HasPrefix(line, "@@ ") \/ HasPrefix(line, "diff --git ")
             THEN HunkReturn(ps)
             ELSE IF HasPrefix(line, "\\ No newline at end of file")
             THEN [ps EXCEPT !.i = @ + 1]
             ELSE IF Len(line) = 0 THEN HunkReturn([ps EXCEPT !.i = @ + 1])
             ELSE BodyLine(ps, line)

\* One loop iteration of the parser, whichever loop it is in.
ParserStep(lines, ps) ==
    CASE ps.loop = "files" -> FilesIter(lines, ps)
      [] ps.loop = "header" -> HeaderIter(lines, ps)
      [] ps.loop = "hunks" -> HunksIter(lines, ps)
      [] ps.loop = "body" -> BodyIter(lines, ps)

RECURSIVE ParserRun(_, _)
ParserRun(lines, ps) ==
    IF ps.loop = "return" THEN ps ELSE ParserRun(lines, ParserStep(lines, ps))

\* Parse that takes the empty input for an error.
Parse_EmptyIsError(in) ==
    IF in = "" THEN Failed("empty input")
    ELSE LET lines == Split(in, "\n")
             ps == ParserRun(lines, ParserStart)
         IN  IF ps.err # "" THEN Failed(ps.err) ELSE Returned(ps.files)

\* Parse parses a unified diff string into structured data.
Parse(in) ==
    IF in = "" THEN Returned(<<>>)
    ELSE LET lines == Split(in, "\n")
             ps == ParserRun(lines, ParserStart)
         IN  IF ps.err # "" THEN Failed(ps.err) ELSE Returned(ps.files)

-----------------------------------------------------------------------------
(* The split view (web/js/app.js).  The browser receives the hunk as JSON: *)
(* lower-case field names, and oldNum/newNum left out when 0 (omitempty),  *)
(* which the 0 of the JS record stands for: `${n || ""}` prints both the   *)
(* same way.                                                               *)

ToJSLine(l) ==
    [type |-> l.Type, content |-> l.Content, oldNum |-> l.OldNum, newNum |-> l.NewNum]

ToJSHunk(h) ==
    [oldStart |-> h.OldStart, oldLines |-> h.OldLines, newStart |-> h.NewStart,
     newLines |-> h.NewLines, header |-> h.Header,
     lines |-> [k \in 1..Len(h.Lines) |-> ToJSLine(h.Lines[k])]]

EscapeChar(c) ==
    CASE c = "&" -> "&amp;" [] c = "<" -> "&lt;" [] c = ">" -> "&gt;"
      [] c = "\"" -> "&quot;" [] OTHER -> c

RECURSIVE escapeHtml(_)
escapeHtml(str) ==
    IF Len(str) = 0 THEN "" ELSE EscapeChar(CharAt(str, 1)) \o escapeHtml(Tail(str))

\* `${n || ""}` for a line number
NumText(n) == IF n = 0 THEN "" ELSE ToString(n)

Cell(class, text) == [class |-> class, text |-> text]

\* A <tr> appended to tbody: its class, its cells, and (for the analysis,
\* not in the DOM) the 1-based positions in hunk.lines of the records its
\* old-side and new-side cells were filled from, 0 for none.
HeaderRow(h) ==
    [className |-> "hunk-header", cells |-> <<Cell("", h.header)>>,
     oldSrc |-> 0, newSrc |-> 0]

OldCells(line, mark) ==
    <<Cell("line-num old-num" \o mark, NumText(line.oldNum)),
      Cell("line-content old-content" \o mark, escapeHtml(line.content))>>

NewCells(line, mark) ==
    <<Cell("line-num new-num" \o mark, NumText(line.newNum)),
      Cell("line-content new-content" \o mark, escapeHtml(line.content))>>

EmptyOldCells ==
    <<Cell("line-num old-num empty-cell", ""), Cell("line-content old-content empty-cell", "")>>

EmptyNewCells ==
    <<Cell("line-num new-num empty-cell", ""), Cell("line-content new-content empty-cell", "")>>

Divider == <<Cell("split-divider", "")>>

\* ContextRow that fills the old side only.
ContextRow_OldOnly(lines, k) ==
    [className |-> "line-context",
     cells |-> OldCells(lines[k], "") \o Divider \o EmptyNewCells,
     oldSrc |-> k, newSrc |-> 0]

\* the row of a context line: shown on both sides
ContextRow(lines, k) ==
    [className |-> "line-context",
     cells |-> OldCells(lines[k], "") \o Divider \o NewCells(lines[k], ""),
     oldSrc |-> k, newSrc |-> k]

\* PairRow that takes the adds from the end of their run.
PairRow_AddsReversed(lines, d, dn, a, an, j) ==
    [className |-> "",
     cells |-> (IF j < dn THEN OldCells(lines[d + j], " old-del") ELSE EmptyOldCells)
               \o Divider
               \o (IF j < an THEN NewCells(lines[a + an - 1 - j], " new-add")
                   ELSE EmptyNewCells),
     oldSrc |-> IF j < dn THEN d + j ELSE 0,
     newSrc |-> IF j < an THEN a + an - 1 - j ELSE 0]

\* row j (from 0) of a delete run starting at position d (dn records) and
\* the add run starting at position a (an records) that follows it
PairRow(lines, d, dn, a, an, j) ==
    [className |-> "",
     cells |-> (IF j < dn THEN OldCells(lines[d + j], " old-del") ELSE EmptyOldCells)
               \o Divider
               \o (IF j < an THEN NewCells(lines[a + j], " new-add") ELSE EmptyNewCells),
     oldSrc |-> IF j < dn THEN d + j ELSE 0,
     newSrc |-> IF j < an THEN a + j ELSE 0]

\* PairRows with Math.min for Math.max.
PairRows_MinLen(lines, d, dn, a, an) ==
    LET minLen == IF dn < an THEN dn ELSE an
    IN  [j \in 1..minLen |-> PairRow(lines, d, dn, a, an, j - 1)]

\* the rows that pair a delete run with the add run after it
PairRows(lines, d, dn, a, an) ==
    LET maxLen == IF dn > an THEN dn ELSE an
    IN  [j \in 1..maxLen |-> PairRow(lines, d, dn, a, an, j - 1)]

\* the row of a standalone add: only the new side
AddRow(lines, k) ==
    [className |-> "",
     cells |-> EmptyOldCells \o Divider \o NewCells(lines[k], " new-add"),
     oldSrc |-> 0, newSrc |-> k]

\* `while (i < lines.length && lines[i].type === type) i++`: where it stops
RECURSIVE RunEnd(_, _, _)
RunEnd(lines, i, type) ==
    IF i < Len(lines) /\ lines[i + 1].type = type THEN RunEnd(lines, i + 1, type) ELSE i

\* SplitIter that collects no add run after the delete run: the adds that
\* follow get rows of their own.
SplitIter_AddsStandalone(lines, st) ==
    LET line == lines[st.i + 1]
    IN  IF line.type = "context"
        THEN [i |-> st.i + 1, rows |-> Append(st.rows, ContextRow(lines, st.i + 1))]
        ELSE IF line.type = "delete"
        THEN LET a == RunEnd(lines, st.i, "delete")
             IN  [i |-> a,
                  rows |-> st.rows \o PairRows(lines, st.i + 1, a - st.i, a + 1, 0)]
        ELSE IF line.type = "add"
        THEN [i |-> st.i + 1, rows |-> Append(st.rows, AddRow(lines, st.i + 1))]
        ELSE [i |-> st.i + 1, rows |-> st.rows]

\* SplitIter that treats an add the way it treats a delete: it collects the
\* add run and the delete run after it and pairs them.
SplitIter_PairsAddFirst(lines, st) ==
    LET line == lines[st.i + 1]
    IN  IF line.type = "context"
        THEN [i |-> st.i + 1, rows |-> Append(st.rows, ContextRow(lines, st.i + 1))]
        ELSE IF line.type = "delete"
        THEN LET a == RunEnd(lines, st.i, "delete")
                 e == RunEnd(lines, a, "add")
             IN  [i |-> e,
                  rows |-> st.rows \o PairRows(lines, st.i + 1, a - st.i, a + 1, e - a)]
        ELSE IF line.type = "add"
        THEN LET a == RunEnd(lines, st.i, "add")
                 e == RunEnd(lines, a, "delete")
             IN  [i |-> e,
                  rows |-> st.rows \o PairRows(lines, a + 1, e - a, st.i + 1, a - st.i)]
        ELSE [i |-> st.i + 1, rows |-> st.rows]

\* One iteration of the loop of renderHunkSplit over [i, rows]: the cursor
\* (from 0) and the rows appended so far.
SplitIter(lines, st) ==
    LET line == lines[st.i + 1]
    IN  IF line.type = "context"
        THEN [i |-> st.i + 1, rows |-> Append(st.rows, ContextRow(lines, st.i + 1))]
        ELSE IF line.type = "delete"
        THEN LET a == RunEnd(lines, st.i, "delete")
                 e == RunEnd(lines, a, "add")
             IN  [i |-> e,
                  rows |-> st.rows \o PairRows(lines, st.i + 1, a - st.i, a + 1, e - a)]
        ELSE IF line.type = "add"
        THEN [i |-> st.i + 1, rows |-> Append(st.rows, AddRow(lines, st.i + 1))]
        ELSE [i |-> st.i + 1, rows |-> st.rows]

RECURSIVE SplitRun(_, _)
SplitRun(lines, st) ==
    IF st.i < Len(lines) THEN SplitRun(lines, SplitIter(lines, st)) ELSE st

\* renderHunkSplit(hunk, tbody) for an empty tbody: the rows it appends
renderHunkSplit(h) ==
    SplitRun(h.lines, [i |-> 0, rows |-> <<HeaderRow(h)>>]).rows

-----------------------------------------------------------------------------
(* The inputs.  An input is the text whose lines are drawn from a small    *)
(* alphabet of lines; each specification draws from the alphabet that      *)
(* holds the line kinds its claims are about.                              *)

\* a number too large for a 64-bit int
Big == "99999999999999999999"

\* hunks and their bodies
HunkLines ==
    {"diff --git a/x b/x",
     "@@ -1 +1 @@", "@@ -2,2 +3,0 @@ f", "@@ -1 +" \o Big \o " @@",
     " c", "+a", "-d", ""}

\* hunk headers whose numbers do and do not convert, in and out of file blocks
NumLines ==
    {"diff --git a/x b/x", "diff --git a/y b/z", "diff --git junk",
     "@@ -1 +1 @@",
     "@@ -" \o Big \o " +1 @@", "@@ -1," \o Big \o " +1 @@",
     "@@ -1 +" \o Big \o " @@", "@@ -1 +1," \o Big \o " @@"}

\* the extended header lines of a file
HeadLines ==
    {"diff --git a/x b/y",
     "--- a/x", "--- /dev/null", "+++ b/y", "+++ /dev/null",
     "rename from p", "rename to q",
     "Binary files a/x and b/y differ",
     "@@ -1 +1 @@"}

BodyLines == {" c", "+a", "-d", "+<b>"}

\* hunk headers as written: counts given and left out, a count of 0, leading
\* zeros, trailing text with and without white space around it
HdrLines ==
    {"diff --git a/x b/x",
     "@@ -1 +1 @@", "@@ -2,2 +3,0 @@ f", "@@ -07,0 +10 @@  g  ",
     "@@ -1 +1 @@ ", "@@ -3 +4,5 @@x",
     " c"}

\* hunk bodies and what ends them: the no-newline marker, an empty line, a
\* line with an unknown prefix
TailLines ==
    {"diff --git a/x b/x", "@@ -1,2 +1,2 @@",
     " c", "+a", "-d",
     "\\ No newline at end of file", "", "junk"}

\* hunks that start at line 0 on one side, and one that does not
ZeroLines ==
    {"diff --git a/x b/x",
     "@@ -0,0 +1 @@", "@@ -1 +0,0 @@", "@@ -3 +5 @@",
     " c", "+a", "-d"}

\* a line for every branch of every loop of Parse and parseHunk
StepLines ==
    {"diff --git a/x b/x",
     "rename from p", "rename to q", "Binary files a/x and b/y differ",
     "--- a/x", "+++ b/x", "@@ -1 +1 @@", "@@ -1 +" \o Big \o " @@",
     " c", "+a", "-d", "\\ No newline at end of file", "", "junk"}

\* the lines a text starts with: nothing, a diff header, or a diff header
\* and a hunk header, so that the lines after them are read by the file
\* loop, the header loop or the body loop
StepPrefixes ==
    {<<>>, <<"diff --git a/x b/x">>, <<"diff --git a/x b/x", "@@ -1 +1 @@">>}

StepText(prefix, tail) == Join(prefix \o tail, "\n")

\* binary markers, with and without a /dev/null side, after rename lines
BinLines ==
    {"diff --git a/x b/y",
     "rename from p", "rename to q",
     "Binary files a/x and b/y differ",
     "Binary files /dev/null and b/y differ",
     "Binary files a/x and /dev/null differ",
     "@@ -1 +1 @@"}

Inputs(alphabet, n) == {Join(ls, "\n") : ls \in SeqsUpTo(alphabet, n)}

Count(ls, prefixes) == Cardinality({k \in 1..Len(ls) : CharAt(ls[k], 1) \in prefixes})

\* the diff of one file whose first hunk header is followed by the lines tail
TailText(tail) == Join(<<"diff --git a/x b/x", "@@ -1,2 +1,2 @@">> \o tail, "\n")

\* the diff of one file with one hunk whose header declares the body
HunkText(body) ==
    Join(<<"diff --git a/x b/x",
           "@@ -1," \o ToString(Count(body, {" ", "-"}))
               \o " +1," \o ToString(Count(body, {" ", "+"})) \o " @@">>
         \o body \o <<"">>, "\n")

NotReturned == [result |-> [nil |-> TRUE, Files |-> <<>>], err |-> "not returned"]

\* no Parse or renderHunkSplit call has been made
PipeIdle ==
    /\ pc = "ready"
    /\ ret = NotReturned
    /\ hunk = ToJSHunk(NoHunk)
    /\ rpc = "ready"
    /\ tbody = <<>>
    /\ pstate = ParserStart
    /\ sstate = [i |-> 0, rows |-> <<>>]
    /\ iters = 0

\* no server has been created
NoServer == [token |-> "", stdinDiff |-> [nil |-> TRUE, Files |-> <<>>],
             config |-> [Base |-> "", Target |-> ""]]

\* no request has been served
NoTraffic == [served |-> FALSE]

\* no page has been opened
NoPage == [opened |-> FALSE]

InitFrom(inputs) ==
    /\ input \in inputs
    /\ PipeIdle
    /\ server = NoServer
    /\ http = NoTraffic
    /\ calls = <<>>
    /\ browser = NoPage

Init == InitFrom(Inputs(HunkLines, MaxLines))
InitNum == InitFrom(Inputs(NumLines, MaxNumLines))
InitHeader == InitFrom(Inputs(HeadLines, MaxHeadLines))
InitSplit == InitFrom({HunkText(body) : body \in SeqsUpTo(BodyLines, MaxBody)})
InitBinary == InitFrom(Inputs(BinLines, MaxBinLines))
InitZero == InitFrom(Inputs(ZeroLines, MaxZeroLines))
InitBody == InitFrom({TailText(tail) : tail \in SeqsUpTo(TailLines, MaxTail)})
InitHunkHeader == InitFrom(Inputs(HdrLines, MaxHdrLines))

\* A caller invokes Parse(input) and receives what it returns.
ParseCall ==
    /\ pc = "ready"
    /\ ret' = Parse(input)
    /\ pc' = "parsed"
    /\ UNCHANGED <<input, splitVars, stepVars>>
    /\ UNCHANGED sysVars

\* The browser, in split view, renders one hunk of a file of the parsed
\* diff that is not binary; tbody holds the rows the call appends.
RenderCall ==
    /\ pc = "parsed"
    /\ ~ret.result.nil
    /\ \E f \in 1..Len(ret.result.Files) :
         /\ ~ret.result.Files[f].IsBinary
         /\ \E h \in 1..Len(ret.result.Files[f].Hunks) :
              /\ hunk' = ToJSHunk(ret.result.Files[f].Hunks[h])
              /\ tbody' = renderHunkSplit(hunk')
    /\ rpc' = "rendered"
    /\ UNCHANGED <<parserVars, stepVars>>
    /\ UNCHANGED sysVars

Next == ParseCall \/ RenderCall

Spec == Init /\ [][Next]_vars
SpecNum == InitNum /\ [][Next]_vars
SpecHeader == InitHeader /\ [][Next]_vars
SpecSplit == InitSplit /\ [][Next]_vars
SpecBinary == InitBinary /\ [][Next]_vars
SpecZero == InitZero /\ [][Next]_vars

-----------------------------------------------------------------------------
(* Parse and renderHunkSplit run one loop iteration at a time.             *)

\* the inputs a caller hands to Parse
StepInputs ==
    {""} \cup {StepText(prefix, tail) :
                  prefix \in StepPrefixes, tail \in SeqsUpTo(StepLines, MaxStepTail)}

\* no call has been made yet
InitSteps == InitFrom({""})

\* Parse is entered with an input: the empty input returns at once, any
\* other is split into lines and the outer loop starts at line 0.
ParseBegin ==
    /\ pc = "ready"
    /\ \E in \in StepInputs :
         /\ input' = in
         /\ IF in = ""
            THEN pc' = "parsed" /\ ret' = Returned(<<>>) /\ pstate' = pstate
            ELSE pc' = "parsing" /\ pstate' = ParserStart /\ ret' = ret
    /\ UNCHANGED <<splitVars, sstate, iters>>
    /\ UNCHANGED sysVars

\* one iteration of the loop the parser is in
ParseStep ==
    /\ pc = "parsing"
    /\ pstate.loop # "return"
    /\ pstate' = ParserStep(Split(input, "\n"), pstate)
    /\ iters' = iters + 1
    /\ UNCHANGED <<parserVars, splitVars, sstate>>
    /\ UNCHANGED sysVars

\* Parse returns: the error of parseHunk, or the files
ParseReturn ==
    /\ pc = "parsing"
    /\ pstate.loop = "return"
    /\ ret' = IF pstate.err # "" THEN Failed(pstate.err) ELSE Returned(pstate.files)
    /\ pc' = "parsed"
    /\ UNCHANGED <<input, splitVars, stepVars>>
    /\ UNCHANGED sysVars

\* renderHunkSplit is entered for a hunk of a file that is not binary: the
\* header row is appended and the cursor starts at 0
RenderBegin ==
    /\ pc = "parsed"
    /\ ~ret.result.nil
    /\ rpc # "rendering"
    /\ \E f \in 1..Len(ret.result.Files) :
         /\ ~ret.result.Files[f].IsBinary
         /\ \E h \in 1..Len(ret.result.Files[f].Hunks) :
              /\ hunk' = ToJSHunk(ret.result.Files[f].Hunks[h])
              /\ sstate' = [i |-> 0, rows |-> <<HeaderRow(hunk')>>]
    /\ rpc' = "rendering"
    /\ iters' = 0
    /\ UNCHANGED <<parserVars, tbody, pstate>>
    /\ UNCHANGED sysVars

\* one iteration of the loop of renderHunkSplit
RenderStep ==
    /\ rpc = "rendering"
    /\ sstate.i < Len(hunk.lines)
    /\ sstate' = SplitIter(hunk.lines, sstate)
    /\ iters' = iters + 1
    /\ UNCHANGED <<parserVars, splitVars, pstate>>
    /\ UNCHANGED sysVars

\* the loop of renderHunkSplit is left: the rows are in the table body
RenderReturn ==
    /\ rpc = "rendering"
    /\ ~(sstate.i < Len(hunk.lines))
    /\ tbody' = sstate.rows
    /\ rpc' = "rendered"
    /\ UNCHANGED <<parserVars, hunk, stepVars>>
    /\ UNCHANGED sysVars

NextSteps ==
    \/ ParseBegin \/ ParseStep \/ ParseReturn
    \/ RenderBegin \/ RenderStep \/ RenderReturn

SpecSteps == InitSteps /\ [][NextSteps]_vars
SpecBody == InitBody /\ [][Next]_vars
SpecHunkHeader == InitHunkHeader /\ [][Next]_vars

-----------------------------------------------------------------------------
(* The git package: the commands a Repo runs.  What a command prints and   *)
(* whether it fails is the environment's choice (run).                     *)

\* strings.Index: the 0-based position of sep in s, -1 when s lacks it
Index(s, sep) ==
    LET at == {k \in 1..Len(s) : Sub(s, k, k + Len(sep) - 1) = sep}
    IN  IF at = {} THEN -1 ELSE Min(at) - 1

RECURSIVE SplitN(_, _, _)
\* strings.SplitN(s, sep, n) for n > 0: at most n parts, the last unsplit
SplitN(s, sep, n) ==
    IF n = 1 \/ Index(s, sep) < 0 THEN <<s>>
    ELSE <<Sub(s, 1, Index(s, sep))>>
             \o SplitN(From(s, Index(s, sep) + Len(sep)), sep, n - 1)

\* Repo.git: the trimmed output, or an error; cmds is the command it ran
git(args, run) ==
    IF run.failed
    THEN [out |-> "",
          err |-> "git " \o Join(args, " ") \o ": exit status 128\n" \o run.out,
          cmds |-> <<args>>]
    ELSE [out |-> TrimSpace(run.out), err |-> "", cmds |-> <<args>>]

GetDiff(base, target, run) ==
    IF target = "" THEN git(<<"diff", "--no-ext-diff", base>>, run)
    ELSE git(<<"diff", "--no-ext-diff", base, target>>, run)

CommitSep == "---COMMIT_SEP---"

Commit(parts) ==
    [hash |-> parts[1], message |-> parts[2], author |-> parts[3], date |-> parts[4]]

RECURSIVE CommitsOf(_)
\* the commits of the lines that have four parts
CommitsOf(lines) ==
    IF lines = <<>> THEN <<>>
    ELSE LET parts == SplitN(lines[1], CommitSep, 4)
         IN  (IF Len(parts) # 4 THEN <<>> ELSE <<Commit(parts)>>)
                 \o CommitsOf(Tail(lines))

\* a []Commit: nil, or the list
NilCommits == [nil |-> TRUE, list |-> <<>>]

GetCommits(n, run) ==
    LET format == Join(<<"%H", "%s", "%an", "%ai">>, CommitSep)
        r == git(<<"log", "--format=" \o format, "-n", ToString(n)>>, run)
        commits == CommitsOf(Split(r.out, "\n"))
    IN  IF r.err # "" THEN [commits |-> NilCommits, err |-> r.err, cmds |-> r.cmds]
        ELSE IF r.out = "" THEN [commits |-> NilCommits, err |-> "", cmds |-> r.cmds]
        ELSE [commits |-> [nil |-> commits = <<>>, list |-> commits],
              err |-> "", cmds |-> r.cmds]

-----------------------------------------------------------------------------
(* The server package: New, the token check and the two API handlers.  A   *)
(* handler's effect is its response, the git commands it ran and the texts *)
(* it handed to Parse.                                                     *)

RECURSIVE EncodeToString(_)
\* hex.EncodeToString of a sequence of bytes
EncodeToString(b) ==
    IF b = <<>> THEN ""
    ELSE CharAt("0123456789abcdef", (b[1] \div 16) + 1)
             \o CharAt("0123456789abcdef", (b[1] % 16) + 1)
             \o EncodeToString(Tail(b))

\* New: random is what rand.Read put into the 16 bytes
New(config, stdinDiff, random) ==
    [config |-> config, stdinDiff |-> stdinDiff, token |-> EncodeToString(random)]

NilResult == [nil |-> TRUE, Files |-> <<>>]

\* http.Error(w, msg, code)
Error(msg, code) ==
    [status |-> code, kind |-> "error", text |-> msg \o "\n",
     diff |-> NilResult, commits |-> <<>>]

\* writeJSON(w, v) for a *diff.Result and for a []git.Commit
writeJSON(kind, result, commits) ==
    [status |-> 200, kind |-> kind, text |-> "", diff |-> result, commits |-> commits]

Effect(resp, cmds, parsed) ==
    [resp |-> resp, cmds |-> cmds, parsed |-> parsed, ran |-> TRUE]

\* subtle.ConstantTimeCompare
ConstantTimeCompare(x, y) == IF Len(x) = Len(y) /\ x = y THEN 1 ELSE 0

\* the handler requireToken returns, applied to request r; next is the
\* effect of the wrapped handler
requireToken_FallsThrough(s, r, next) ==
    IF ConstantTimeCompare(r.token, s.token) # 1
    THEN [next EXCEPT !.resp.status = 403]
    ELSE next

requireToken(s, r, next) ==
    IF ConstantTimeCompare(r.token, s.token) # 1
    THEN [resp |-> Error("Forbidden", 403), cmds |-> <<>>, parsed |-> <<>>,
          ran |-> FALSE]
    ELSE next

handleDiff_StdinUnlessBase(s, r, run) ==
    IF ~s.stdinDiff.nil /\ r.base = ""
    THEN Effect(writeJSON("diff", s.stdinDiff, <<>>), <<>>, <<>>)
    ELSE LET base == IF r.base = "" THEN s.config.Base ELSE r.base
             target == IF r.target = "" THEN s.config.Target ELSE r.target
             g == GetDiff(base, target, run)
             p == Parse(g.out)
         IN  IF g.err # "" THEN Effect(Error(g.err, 500), g.cmds, <<>>)
             ELSE IF p.err # "" THEN Effect(Error(p.err, 500), g.cmds, <<g.out>>)
             ELSE Effect(writeJSON("diff", p.result, <<>>), g.cmds, <<g.out>>)

handleDiff(s, r, run) ==
    IF ~s.stdinDiff.nil
    THEN Effect(writeJSON("diff", s.stdinDiff, <<>>), <<>>, <<>>)
    ELSE LET base == IF r.base = "" THEN s.config.Base ELSE r.base
             target == IF r.target = "" THEN s.config.Target ELSE r.target
             g == GetDiff(base, target, run)
             p == Parse(g.out)
         IN  IF g.err # "" THEN Effect(Error(g.err, 500), g.cmds, <<>>)
             ELSE IF p.err # "" THEN Effect(Error(p.err, 500), g.cmds, <<g.out>>)
             ELSE Effect(writeJSON("diff", p.result, <<>>), g.cmds, <<g.out>>)

handleCommits(s, r, run) ==
    IF ~s.stdinDiff.nil
    THEN Effect(writeJSON("commits", NilResult, <<>>), <<>>, <<>>)
    ELSE LET c == GetCommits(50, run)
         IN  IF c.err # "" THEN Effect(Error(c.err, 500), c.cmds, <<>>)
             ELSE Effect(writeJSON("commits", NilResult, c.commits.list), c.cmds, <<>>)

\* the diff that stdin mode parsed at start-up
StdinText == "diff --git a/s b/s\n@@ -1 +1 @@\n-d\n+a"

\* what rand.Read can put into the token's bytes
RandomBytes == {[k \in 1..16 |-> 0], [k \in 1..16 |-> 171]}

\* the servers main can create: git mode and stdin mode
Servers ==
    {New([Base |-> "HEAD", Target |-> ""], stdinDiff, random) :
        stdinDiff \in {NilResult, Parse(StdinText).result}, random \in RandomBytes}

\* the X-Auth-Token headers a client sends: none, a token, part of a token
HeaderTokens ==
    {""} \cup {EncodeToString(b) : b \in RandomBytes}
         \cup {Sub(EncodeToString(b), 1, 31) : b \in RandomBytes}

\* the GET requests to path, with their query parameters
Requests(path) ==
    {[path |-> path, token |-> t, base |-> b, target |-> g] :
        t \in HeaderTokens, b \in {"", "main", "-n"}, g \in {"", "--output=x"}}

\* what git prints for a request: nothing, a diff, a diff whose hunk header
\* has a number out of range, a commit log, a failure
GitRuns ==
    {[failed |-> FALSE, out |-> ""],
     [failed |-> FALSE, out |-> "diff --git a/x b/x\n@@ -1 +1 @@\n-d\n+a\n"],
     [failed |-> FALSE, out |-> "diff --git a/x b/x\n@@ -1 +" \o Big \o " @@\n"],
     [failed |-> FALSE, out |-> Join(<<"h1", "m", "me", "2026">>, CommitSep) \o "\njunk\n"],
     [failed |-> TRUE, out |-> "fatal: bad revision"]}

InitServer ==
    /\ input = ""
    /\ PipeIdle
    /\ server \in Servers
    /\ http = NoTraffic
    /\ calls = <<>>
    /\ browser = NoPage

Served(r, e) ==
    [served |-> TRUE, req |-> r, resp |-> e.resp, cmds |-> e.cmds,
     parsed |-> e.parsed, ran |-> e.ran]

\* routes: GET /api/diff
ServeDiff ==
    /\ \E r \in Requests("/api/diff"), run \in GitRuns :
         http' = Served(r, requireToken(server, r, handleDiff(server, r, run)))
    /\ UNCHANGED <<pipeVars, server, calls, browser>>

\* routes: GET /api/commits
ServeCommits ==
    /\ \E r \in Requests("/api/commits"), run \in GitRuns :
         http' = Served(r, requireToken(server, r, handleCommits(server, r, run)))
    /\ UNCHANGED <<pipeVars, server, calls, browser>>

NextServer == ServeDiff \/ ServeCommits

SpecServer == InitServer /\ [][NextServer]_vars

-----------------------------------------------------------------------------
(* Parse invocations that run side by side, as the goroutines of parallel  *)
(* /api/diff requests do, one loop iteration at a time.  input, lines,     *)
(* result, i, file and hunk are locals of an invocation; the patterns are  *)
(* package-level variables that Parse only matches against.                *)

\* the package-level pattern variables, as initialised
Patterns ==
    [diffHeaderRe |-> "^diff --git a/(.+) b/(.+)$",
     hunkHeaderRe |-> "^@@ -(\\d+)(?:,(\\d+))? \\+(\\d+)(?:,(\\d+))? @@(.*)$",
     renameFromRe |-> "^rename from (.+)$",
     renameToRe |-> "^rename to (.+)$",
     binaryRe |-> "^Binary files (.+) and (.+) differ$"]

\* the diffs the requests' git commands printed
CallInputs ==
    {"",
     "diff --git a/x b/x\n@@ -1 +1 @@\n-d\n+a",
     "diff --git a/x b/y\nrename from p\nrename to q",
     "diff --git a/x b/x\n@@ -1 +" \o Big \o " @@",
     "junk\ndiff --git a/b b/b\nBinary files a/b and b/b differ"}

\* an invocation that has been called with input in
Called(in) == [input |-> in, at |-> "called", ps |-> ParserStart, ret |-> NotReturned]

InitCalls ==
    /\ input = ""
    /\ PipeIdle
    /\ server = NoServer
    /\ http = NoTraffic
    /\ calls \in {[tables |-> Patterns, overlapped |-> FALSE,
                   inv |-> [k \in 1..MaxCalls |-> Called(ins[k])]] :
                     ins \in [1..MaxCalls -> CallInputs]}
    /\ browser = NoPage

\* another invocation than k is between its first and its last step
OtherRunning(k) == \E j \in DOMAIN calls.inv : j # k /\ calls.inv[j].at = "running"

\* invocation k enters Parse: the empty input returns at once
BeginOf(inv, k) ==
    IF inv[k].input = ""
    THEN [inv EXCEPT ![k].at = "returned", ![k].ret = Returned(<<>>)]
    ELSE [inv EXCEPT ![k].at = "running", ![k].ps = ParserStart]

\* invocation k runs one loop iteration on its own lines and locals
StepOf_SharedCursor(inv, k) ==
    LET next == ParserStep(Split(inv[k].input, "\n"), inv[k].ps)
    IN  [j \in DOMAIN inv |->
            IF j = k THEN [inv[j] EXCEPT !.ps = next]
            ELSE IF inv[j].at = "running" THEN [inv[j] EXCEPT !.ps.i = next.i]
            ELSE inv[j]]

StepOf(inv, k) ==
    [inv EXCEPT ![k].ps = ParserStep(Split(inv[k].input, "\n"), inv[k].ps)]

\* invocation k returns its error or its result
ReturnOf(inv, k) ==
    [inv EXCEPT ![k].at = "returned",
                ![k].ret = IF inv[k].ps.err # "" THEN Failed(inv[k].ps.err)
                           ELSE Returned(inv[k].ps.files)]

CallBegin ==
    /\ \E k \in DOMAIN calls.inv :
         /\ calls.inv[k].at = "called"
         /\ calls' = [calls EXCEPT !.inv = BeginOf(calls.inv, k),
                                   !.overlapped = @ \/ OtherRunning(k)]
    /\ UNCHANGED <<pipeVars, server, http, browser>>

CallStep ==
    /\ \E k \in DOMAIN calls.inv :
         /\ calls.inv[k].at = "running"
         /\ calls.inv[k].ps.loop # "return"
         /\ calls' = [calls EXCEPT !.inv = StepOf(calls.inv, k),
                                   !.overlapped = @ \/ OtherRunning(k)]
    /\ UNCHANGED <<pipeVars, server, http, browser>>

CallReturn ==
    /\ \E k \in DOMAIN calls.inv :
         /\ calls.inv[k].at = "running"
         /\ calls.inv[k].ps.loop = "return"
         /\ calls' = [calls EXCEPT !.inv = ReturnOf(calls.inv, k),
                                   !.overlapped = @ \/ OtherRunning(k)]
    /\ UNCHANGED <<pipeVars, server, http, browser>>

NextCalls == CallBegin \/ CallStep \/ CallReturn

SpecCalls == InitCalls /\ [][NextCalls]_vars

-----------------------------------------------------------------------------
(* The page: init, the pickers and loadDiff.  A fetch is in flight from    *)
(* the call of fetchDiff until the continuation after its await runs; the  *)
(* fetches in flight complete in any order.                                *)

\* the hashes populateCommits puts into both pickers
Commits == {"c1", "c2"}

\* data.files of the server's answer to /api/diff for a base and a target
\* that fetchDiff sent ("" is a parameter it left out)
FilesFor(base, target) ==
    <<[newName |-> (IF base = "" THEN "merge-base" ELSE base) \o ".."
                       \o (IF target = "" THEN "worktree" ELSE target),
       status |-> "modified"]>>

\* showLoading
Loading == [kind |-> "loading", files |-> <<>>, text |-> "Loading"]

\* renderFileTree and renderDiffContent: the tree and the diff of files
Shown(files) == [kind |-> "files", files |-> files, text |-> ""]

\* showError
ErrorShown(message) == [kind |-> "error", files |-> <<>>, text |-> message]

\* the page once its script has run up to the await of init
PageOpened ==
    [opened |-> TRUE, base |-> "", target |-> "", commits |-> "pending",
     initPending |-> TRUE, inflight |-> {}, issued |-> 0, settled |-> {},
     currentFiles |-> <<>>, tree |-> Loading, content |-> Loading]

InitBrowser ==
    /\ input = ""
    /\ PipeIdle
    /\ server = NoServer
    /\ http = NoTraffic
    /\ calls = <<>>
    /\ browser = PageOpened

\* the continuation of loadDiff after its await, for the fetch req
loadDiffSettled(b, req, ok) ==
    IF ok
    THEN [b EXCEPT !.inflight = @ \ {req},
                   !.settled = @ \cup {[id |-> req.id, ok |-> TRUE]},
                   !.currentFiles = FilesFor(req.base, req.target),
                   !.tree = Shown(FilesFor(req.base, req.target)),
                   !.content = Shown(FilesFor(req.base, req.target))]
    ELSE [b EXCEPT !.inflight = @ \ {req},
                   !.settled = @ \cup {[id |-> req.id, ok |-> FALSE]},
                   !.content = ErrorShown("Failed to load diff")]

\* loadDiff up to its await: it reads both pickers and sends the fetch
loadDiffCalled(b) ==
    [b EXCEPT !.tree = Loading, !.content = Loading,
              !.issued = @ + 1,
              !.inflight = @ \cup {[id |-> b.issued + 1, base |-> b.base,
                                    target |-> b.target]}]

\* populateCommits settles: both pickers are rebuilt, with the commits or
\* with the failure option, and show their first option
PopulateCommits ==
    /\ browser.commits = "pending"
    /\ \E ok \in BOOLEAN :
         browser' = [browser EXCEPT !.commits = IF ok THEN "loaded" ELSE "failed",
                                    !.base = "", !.target = ""]
    /\ UNCHANGED <<pipeVars, server, http, calls>>

\* Promise.allSettled of init resolves once the commits and the first
\* fetchDiff() have settled
InitSettled ==
    /\ browser.initPending
    /\ browser.commits # "pending"
    /\ \E ok \in BOOLEAN :
         browser' =
            IF ok
            THEN [browser EXCEPT !.initPending = FALSE,
                                 !.currentFiles = FilesFor("", ""),
                                 !.tree = Shown(FilesFor("", "")),
                                 !.content = Shown(FilesFor("", ""))]
            ELSE [browser EXCEPT !.initPending = FALSE,
                                 !.content = ErrorShown("Failed to load diff")]
    /\ UNCHANGED <<pipeVars, server, http, calls>>

\* the user picks another option of a picker: the change listener runs
\* loadDiff
PickerChange ==
    /\ browser.commits = "loaded"
    /\ browser.issued < MaxChanges
    /\ \E v \in Commits \cup {""} :
         \/ /\ v # browser.base
            /\ browser' = loadDiffCalled([browser EXCEPT !.base = v])
         \/ /\ v # browser.target
            /\ browser' = loadDiffCalled([browser EXCEPT !.target = v])
    /\ UNCHANGED <<pipeVars, server, http, calls>>

\* a fetch of loadDiff completes, or fails, and its continuation runs
LoadSettled ==
    /\ \E req \in browser.inflight, ok \in BOOLEAN :
         browser' = loadDiffSettled(browser, req, ok)
    /\ UNCHANGED <<pipeVars, server, http, calls>>

NextBrowser == PopulateCommits \/ InitSettled \/ PickerChange \/ LoadSettled

SpecBrowser == InitBrowser /\ [][NextBrowser]_vars

-----------------------------------------------------------------------------
(* What the claims speak of, read off the input text and the returned      *)
(* value.                                                                  *)

InputLines == Split(input, "\n")
Files == ret.result.Files
Returns == pc = "parsed" /\ ret.err = ""

RECURSIVE Ascending(_)
\* the members of a set of numbers, in increasing order
Ascending(S) == IF S = {} THEN <<>> ELSE <<Min(S)>> \o Ascending(S \ {Min(S)})

RECURSIVE AllHunks(_)
\* the hunks of all files, in order
AllHunks(files) ==
    IF Len(files) = 0 THEN <<>> ELSE files[1].Hunks \o AllHunks(Tail(files))

\* the positions of the lines that match the diff header pattern
DiffHeaderIdx(ls) == {k \in 1..Len(ls) : diffHeaderRe(ls[k]).ok}

\* the position after the file block that starts at line d
BlockEnd(ls, d) ==
    Min({j \in (d + 1)..Len(ls) : HasPrefix(ls[j], "diff --git ")} \cup {Len(ls) + 1})

\* line k lies inside a file block (after its diff header)
InFileBlock(ls, k) == \E d \in DiffHeaderIdx(ls) : d < k /\ k < BlockEnd(ls, d)

\* the positions of the hunk header lines inside file blocks
HunkHeaderIdx(ls) == {k \in 1..Len(ls) : hunkHeaderRe(ls[k]).ok /\ InFileBlock(ls, k)}

OldSide(ls) == SelectSeq(ls, LAMBDA l : l.Type \in {"context", "delete"})
NewSide(ls) == SelectSeq(ls, LAMBDA l : l.Type \in {"context", "add"})

-----------------------------------------------------------------------------
(* C1 (as claimed): every LineRecord of a hunk appears in exactly one Row  *)
(* of the split view, on exactly one side (old or new).                    *)

RowsOf(k) == {r \in 1..Len(tbody) : tbody[r].oldSrc = k \/ tbody[r].newSrc = k}

C1_ExactlyOneSide ==
    rpc = "rendered" =>
        \A k \in 1..Len(hunk.lines) :
            /\ Cardinality(RowsOf(k)) = 1
            /\ \A r \in RowsOf(k) : (tbody[r].oldSrc = k) # (tbody[r].newSrc = k)

\* the cells of row r show, on each side, the record the side was filled from
ShowsSources(r) ==
    LET row == tbody[r]
        ls == hunk.lines
    IN  /\ IF row.oldSrc > 0
           THEN /\ row.cells[1].text = NumText(ls[row.oldSrc].oldNum)
                /\ row.cells[2].text = escapeHtml(ls[row.oldSrc].content)
           ELSE row.cells[1] = EmptyOldCells[1] /\ row.cells[2] = EmptyOldCells[2]
        /\ IF row.newSrc > 0
           THEN /\ row.cells[4].text = NumText(ls[row.newSrc].newNum)
                /\ row.cells[5].text = escapeHtml(ls[row.newSrc].content)
           ELSE row.cells[4] = EmptyNewCells[1] /\ row.cells[5] = EmptyNewCells[2]

(* C1 (amended): every LineRecord of a hunk appears in exactly one Row of  *)
(* the split view: a delete on the old side only, an add on the new side   *)
(* only, a context line on both sides of its one row; none is duplicated,  *)
(* none omitted.                                                           *)
C1_ExactlyOneRow ==
    rpc = "rendered" =>
        /\ \A k \in 1..Len(hunk.lines) :
            /\ Cardinality(RowsOf(k)) = 1
            /\ \A r \in RowsOf(k) :
                /\ (tbody[r].oldSrc = k) = (hunk.lines[k].type \in {"context", "delete"})
                /\ (tbody[r].newSrc = k) = (hunk.lines[k].type \in {"context", "add"})
        /\ \A r \in 2..Len(tbody) : ShowsSources(r)

\* a hunk with all three kinds of line, and an add run longer than the
\* delete run before it, has been rendered
C1_Witness ==
    /\ rpc = "rendered"
    /\ {hunk.lines[k].type : k \in 1..Len(hunk.lines)} = {"context", "delete", "add"}
    /\ \E r \in 2..Len(tbody) : tbody[r].oldSrc = 0 /\ tbody[r - 1].oldSrc > 0
                                 /\ tbody[r - 1].newSrc > 0
                                 /\ tbody[r - 1].className = ""

-----------------------------------------------------------------------------
(* C2: in every hunk Parse returns, the oldNum of the context and delete   *)
(* lines, in order, are oldStart, oldStart+1, ... and the newNum of the    *)
(* context and add lines, in order, are newStart, newStart+1, ...          *)

NumberedFrom(h) ==
    /\ \A k \in 1..Len(OldSide(h.Lines)) : OldSide(h.Lines)[k].OldNum = h.OldStart + k - 1
    /\ \A k \in 1..Len(NewSide(h.Lines)) : NewSide(h.Lines)[k].NewNum = h.NewStart + k - 1

C2_ConsecutiveNumbers ==
    pc = "parsed" =>
        \A k \in 1..Len(AllHunks(Files)) : NumberedFrom(AllHunks(Files)[k])

\* a hunk that was cut short by a malformed line, with lines on both sides
C2_Witness ==
    /\ pc = "parsed"
    /\ \E k \in 1..Len(AllHunks(Files)) :
         LET h == AllHunks(Files)[k]
         IN  /\ Len(OldSide(h.Lines)) = 2
             /\ Len(NewSide(h.Lines)) = 1
             /\ h.OldStart = 2
             /\ h.OldLines # 2 \/ h.NewLines # 1

-----------------------------------------------------------------------------
(* C3: when every hunk header inside a file block is followed by exactly   *)
(* its declared body and then by a hunk header, a diff header or the end   *)
(* of input, each parsed hunk holds exactly the lines of its body:         *)
(* #context + #delete = oldLines and #context + #add = newLines.           *)

IsBodyLine(line) == CharAt(line, 1) \in {" ", "+", "-"}

\* the position after the run of body lines that follows the header at k
BodyEnd(ls, k) ==
    Min({j \in (k + 1)..Len(ls) : ~IsBodyLine(ls[j])} \cup {Len(ls) + 1})

\* the count a header declares, from the captured text ("" declares 1)
Declared(text) == IF text = "" THEN 1 ELSE DigitsValue(StripZeros(text))

EndOfInput(ls, k) == k > Len(ls) \/ (k = Len(ls) /\ ls[k] = "")

WellFormedHunkAt(ls, k) ==
    LET g == hunkHeaderRe(ls[k]).g
        e == BodyEnd(ls, k)
        body == SubSeq(ls, k + 1, e - 1)
    IN  /\ ~OutOfRange(g[2]) /\ ~OutOfRange(g[4])
        /\ Count(body, {" ", "-"}) = Declared(g[2])
        /\ Count(body, {" ", "+"}) = Declared(g[4])
        /\ \/ EndOfInput(ls, e)
           \/ hunkHeaderRe(ls[e]).ok
           \/ diffHeaderRe(ls[e]).ok

WellFormed(ls) == \A k \in HunkHeaderIdx(ls) : WellFormedHunkAt(ls, k)

\* the type the prefix of a body line stands for
TypeOf(line) ==
    CASE CharAt(line, 1) = " " -> "context"
      [] CharAt(line, 1) = "+" -> "add"
      [] CharAt(line, 1) = "-" -> "delete"

\* hunk h holds exactly the body lines after the header at position k
HoldsBody(ls, k, h) ==
    LET body == SubSeq(ls, k + 1, BodyEnd(ls, k) - 1)
    IN  /\ Len(h.Lines) = Len(body)
        /\ \A j \in 1..Len(body) :
             h.Lines[j].Type = TypeOf(body[j]) /\ h.Lines[j].Content = From(body[j], 1)
        /\ Len(OldSide(h.Lines)) = h.OldLines
        /\ Len(NewSide(h.Lines)) = h.NewLines
        /\ h.OldLines = Declared(hunkHeaderRe(ls[k]).g[2])
        /\ h.NewLines = Declared(hunkHeaderRe(ls[k]).g[4])

C3_DeclaredCounts ==
    (Returns /\ WellFormed(InputLines)) =>
        LET at == Ascending(HunkHeaderIdx(InputLines))
            hs == AllHunks(Files)
        IN  /\ Len(hs) = Len(at)
            /\ \A j \in 1..Len(at) : HoldsBody(InputLines, at[j], hs[j])

\* a well-formed input with a two-line hunk has been parsed
C3_Witness ==
    /\ Returns
    /\ WellFormed(InputLines)
    /\ \E k \in 1..Len(AllHunks(Files)) :
         AllHunks(Files)[k].OldLines = 2 /\ Len(AllHunks(Files)[k].Lines) = 2

-----------------------------------------------------------------------------
(* C4 (as claimed): every FileEntry Parse returns with isBinary = true has *)
(* an empty hunks list, whatever lines follow the "Binary files" line.     *)

C4_BinaryHasNoHunks ==
    pc = "parsed" =>
        \A j \in 1..Len(Files) : Files[j].IsBinary => Files[j].Hunks = <<>>

-----------------------------------------------------------------------------
(* C5: Parse returns an error exactly when a hunk header inside a file     *)
(* block has a numeric field that does not convert to an int; it then      *)
(* returns no DiffResult, and otherwise a DiffResult and no error.         *)

HasBadNumber(line) ==
    \E n \in 1..4 : OutOfRange(hunkHeaderRe(line).g[n])

C5_ErrorIffBadNumber ==
    pc = "parsed" =>
        /\ (ret.err # "") =
               (\E k \in HunkHeaderIdx(InputLines) : HasBadNumber(InputLines[k]))
        /\ ret.err # "" => ret.result.nil /\ Files = <<>>
        /\ ret.err = "" => ~ret.result.nil

\* Parse failed on a header that follows a file block with a good hunk
C5_Witness ==
    /\ pc = "parsed"
    /\ ret.err = "invalid new lines"
    /\ ret.result.nil
    /\ \E k \in HunkHeaderIdx(InputLines) : \E b \in HunkHeaderIdx(InputLines) :
         k < b /\ ~HasBadNumber(InputLines[k]) /\ HasBadNumber(InputLines[b])

-----------------------------------------------------------------------------
(* C6: Parse of the empty string returns a DiffResult with zero files and  *)
(* no error.                                                               *)

C6_EmptyInput ==
    (pc = "parsed" /\ input = "") =>
        ret.err = "" /\ ~ret.result.nil /\ Files = <<>>

C6_Witness == pc = "parsed" /\ input = "" /\ ret.err = ""

-----------------------------------------------------------------------------
(* C7 (as claimed): Parse returns exactly one FileEntry for each input     *)
(* line that matches the diff header pattern, in the order of those lines; *)
(* lines outside a file block produce no FileEntry and no error.           *)

\* no line of the block that starts at d can change the names of its file
KeepsHeaderNames(ls, d) ==
    \A k \in (d + 1)..(BlockEnd(ls, d) - 1) :
        ~HasPrefix(ls[k], "rename ") /\ ~HasPrefix(ls[k], "Binary files ")
        /\ ~HasPrefix(ls[k], "--- ")

OneFilePerHeader(ls, files) ==
    LET at == Ascending(DiffHeaderIdx(ls))
    IN  /\ Len(files) = Len(at)
        /\ \A j \in 1..Len(at) :
             KeepsHeaderNames(ls, at[j]) =>
                 /\ files[j].OldName = diffHeaderRe(ls[at[j]]).g[1]
                 /\ files[j].NewName = diffHeaderRe(ls[at[j]]).g[2]

C7_OneFilePerHeader ==
    pc = "parsed" =>
        /\ OneFilePerHeader(InputLines, Files)
        /\ DiffHeaderIdx(InputLines) = {} => ret.err = ""

(* C7 (amended): when Parse returns no error, it returns exactly one       *)
(* FileEntry for each input line that matches the diff header pattern, in  *)
(* the order of those lines; lines outside a file block produce no         *)
(* FileEntry and no error.                                                 *)
C7_OneFilePerHeaderReturned ==
    pc = "parsed" =>
        /\ ret.err = "" => OneFilePerHeader(InputLines, Files)
        /\ DiffHeaderIdx(InputLines) = {} => ret.err = ""

\* two files with different names were returned for an input that starts
\* with a line outside any file block
C7_Witness ==
    /\ Returns
    /\ Len(Files) = 2
    /\ Files[1].OldName # Files[2].OldName
    /\ ~diffHeaderRe(InputLines[1]).ok

-----------------------------------------------------------------------------
(* C8: for line sequences A and B, B beginning with a diff header line and *)
(* neither causing a parse error, the files of Parse(A followed by B) are  *)
(* the files of Parse(A) followed by the files of Parse(B).                *)

ParseLines(ls) == Parse(Join(ls, "\n"))

\* the input is A followed by B, A its first k lines
ConcatAt(ls, k) ==
    LET a == ParseLines(SubSeq(ls, 1, k))
        b == ParseLines(SubSeq(ls, k + 1, Len(ls)))
    IN  (diffHeaderRe(ls[k + 1]).ok /\ a.err = "" /\ b.err = "") =>
            /\ ret.err = ""
            /\ Files = a.result.Files \o b.result.Files

C8_FilesConcatenate ==
    pc = "parsed" => \A k \in 0..(Len(InputLines) - 1) : ConcatAt(InputLines, k)

\* the second of two files has a hunk with a line
C8_Witness ==
    /\ Returns
    /\ Len(Files) = 2
    /\ Len(Files[2].Hunks) = 1
    /\ Len(Files[2].Hunks[1].Lines) = 1
    /\ ParseLines(SubSeq(InputLines, 1, 1)).result.Files # <<>>

-----------------------------------------------------------------------------
(* C9: every FileEntry Parse returns has a status that is one of added,    *)
(* deleted, modified, renamed; a file whose block has no rename line, no   *)
(* "--- " line and no binary marker has status modified.                   *)

StatusValues == {"added", "deleted", "modified", "renamed"}

PlainBlock(ls, d) ==
    \A k \in (d + 1)..(BlockEnd(ls, d) - 1) :
        /\ ~renameFromRe(ls[k]).ok
        /\ ~renameToRe(ls[k]).ok
        /\ ~binaryRe(ls[k]).ok
        /\ ~HasPrefix(ls[k], "--- ")

C9_StatusNeverEmpty ==
    pc = "parsed" =>
        /\ \A j \in 1..Len(Files) : Files[j].Status \in StatusValues
        /\ ret.err = "" =>
             LET at == Ascending(DiffHeaderIdx(InputLines))
             IN  \A j \in 1..Len(Files) :
                     PlainBlock(InputLines, at[j]) => Files[j].Status = "modified"

\* a file whose block holds only a hunk was returned
C9_Witness ==
    /\ Returns
    /\ \E j \in 1..Len(Files) :
         /\ PlainBlock(InputLines, Ascending(DiffHeaderIdx(InputLines))[j])
         /\ Files[j].Hunks # <<>>
         /\ Files[j].Status = "modified"

-----------------------------------------------------------------------------
(* C10: when the "--- " / "+++ " lines of a file are reached with status   *)
(* still unset, status becomes added if the old name is /dev/null,         *)
(* otherwise deleted if the new name is /dev/null, otherwise modified.     *)

\* the lines of the block at d on which the extended-header loop acts
HeaderEvents(ls, d) ==
    {k \in (d + 1)..(BlockEnd(ls, d) - 1) :
        \/ renameFromRe(ls[k]).ok \/ renameToRe(ls[k]).ok \/ binaryRe(ls[k]).ok
        \/ HasPrefix(ls[k], "--- ") \/ HasPrefix(ls[k], "@@ ")}

\* the first of them is a "--- " line: it is reached with status unset
MinusReachedUnset(ls, d) ==
    HeaderEvents(ls, d) # {} /\ HasPrefix(ls[Min(HeaderEvents(ls, d))], "--- ")

StatusByNames(f) ==
    IF f.OldName = "/dev/null" THEN "added"
    ELSE IF f.NewName = "/dev/null" THEN "deleted"
    ELSE "modified"

C10_StatusFromNames ==
    Returns =>
        LET at == Ascending(DiffHeaderIdx(InputLines))
        IN  \A j \in 1..Len(Files) :
                MinusReachedUnset(InputLines, at[j]) =>
                    Files[j].Status = StatusByNames(Files[j])

\* a file with both names /dev/null, and so added, was returned
C10_Witness ==
    /\ Returns
    /\ \E j \in 1..Len(Files) :
         /\ MinusReachedUnset(InputLines, Ascending(DiffHeaderIdx(InputLines))[j])
         /\ Files[j].OldName = "/dev/null"
         /\ Files[j].NewName = "/dev/null"
         /\ Files[j].Status = "added"

-----------------------------------------------------------------------------
(* C11 (as claimed): when a file block contains a "--- " line immediately  *)
(* followed by a "+++ " line, the FileEntry's oldName and newName are      *)
(* those two markers (/dev/null kept, otherwise the leading a/ or b/       *)
(* stripped), overriding the diff header's and the rename lines' names.    *)

\* the name a marker stands for
MarkerName(m) ==
    IF m = "/dev/null" THEN "/dev/null"
    ELSE IF HasPrefix(m, "a/") \/ HasPrefix(m, "b/") THEN From(m, 2)
    ELSE m

\* line k of the block at d is a "--- " line directly followed by a "+++ " line
MarkerPairAt(ls, d, k) ==
    /\ d < k /\ k + 1 < BlockEnd(ls, d)
    /\ HasPrefix(ls[k], "--- ") /\ HasPrefix(ls[k + 1], "+++ ")

\* the marker of a "--- " or "+++ " line: its text after the prefix, the
\* white space around it aside
NamesFromPair(ls, k, f) ==
    /\ f.OldName = MarkerName(TrimSpace(From(ls[k], 4)))
    /\ f.NewName = MarkerName(TrimSpace(From(ls[k + 1], 4)))

C11_MarkersAreNames ==
    Returns =>
        LET at == Ascending(DiffHeaderIdx(InputLines))
        IN  \A j \in 1..Len(Files) : \A k \in 1..Len(InputLines) :
                MarkerPairAt(InputLines, at[j], k) => NamesFromPair(InputLines, k, Files[j])

\* the lines of the block at d that end the extended header
HeaderStops(ls, d) ==
    {k \in (d + 1)..(BlockEnd(ls, d) - 1) :
        binaryRe(ls[k]).ok \/ HasPrefix(ls[k], "--- ") \/ HasPrefix(ls[k], "@@ ")}

\* the pair at k is in the extended header: no "@@ " line, "Binary files"
\* line or other "--- " line of the block comes before it
HeaderPairAt(ls, d, k) ==
    MarkerPairAt(ls, d, k) /\ k = Min(HeaderStops(ls, d))

(* C11 (amended): when a file block contains a "--- " line immediately     *)
(* followed by a "+++ " line, with no "@@ " line, "Binary files" line or   *)
(* other "--- " line of the block before it, the FileEntry's oldName and   *)
(* newName are those two markers (/dev/null kept, otherwise the leading a/ *)
(* or b/ stripped), overriding the diff header's and the rename lines'     *)
(* names.                                                                  *)
C11_HeaderMarkersAreNames ==
    Returns =>
        LET at == Ascending(DiffHeaderIdx(InputLines))
        IN  \A j \in 1..Len(Files) : \A k \in 1..Len(InputLines) :
                HeaderPairAt(InputLines, at[j], k) => NamesFromPair(InputLines, k, Files[j])

\* a renamed file whose names come from the pair after its rename line
C11_Witness ==
    /\ Returns
    /\ \E j \in 1..Len(Files) : \E k \in 1..Len(InputLines) :
         /\ HeaderPairAt(InputLines, Ascending(DiffHeaderIdx(InputLines))[j], k)
         /\ renameFromRe(InputLines[k - 1]).ok
         /\ Files[j].OldName = "/dev/null"
         /\ Files[j].NewName = "y"
         /\ Files[j].Status = "renamed"

-----------------------------------------------------------------------------
(* C12 (as claimed): a file whose block has "rename from" / "rename to"    *)
(* lines gets status renamed and (when no later marker names the file      *)
(* anew) the names of those lines; if no hunk follows, its hunks list is   *)
(* empty, and if a "--- " / "+++ " pair and hunks follow, the status stays *)
(* renamed and the hunks are present.                                      *)

\* the position where the extended header of the block at d ends
HeaderEnd(ls, d) == Min(HeaderStops(ls, d) \cup {BlockEnd(ls, d)})

RenameFromIdx(ls, d) == {k \in (d + 1)..(HeaderEnd(ls, d) - 1) : renameFromRe(ls[k]).ok}
RenameToIdx(ls, d) ==
    {k \in (d + 1)..(HeaderEnd(ls, d) - 1) :
        ~renameFromRe(ls[k]).ok /\ renameToRe(ls[k]).ok}

HasRenameLines(ls, d) == RenameFromIdx(ls, d) # {} /\ RenameToIdx(ls, d) # {}

\* the header of the block ends with a line that names the file anew
NamedAnew(ls, d) ==
    LET e == HeaderEnd(ls, d)
    IN  e < BlockEnd(ls, d) /\ (binaryRe(ls[e]).ok \/ HasPrefix(ls[e], "--- "))

HunkHeadersIn(ls, d) == {k \in (d + 1)..(BlockEnd(ls, d) - 1) : hunkHeaderRe(ls[k]).ok}

RenamedFile(ls, d, f) ==
    /\ f.Status = "renamed"
    /\ ~NamedAnew(ls, d) =>
         /\ f.OldName = renameFromRe(ls[Max(RenameFromIdx(ls, d))]).g[1]
         /\ f.NewName = renameToRe(ls[Max(RenameToIdx(ls, d))]).g[1]
    /\ HunkHeadersIn(ls, d) = {} => f.Hunks = <<>>
    /\ (HeaderPairAt(ls, d, HeaderEnd(ls, d)) /\ HunkHeadersIn(ls, d) # {}) =>
         f.Hunks # <<>>

C12_RenamedFile ==
    Returns =>
        LET at == Ascending(DiffHeaderIdx(InputLines))
        IN  \A j \in 1..Len(Files) :
                HasRenameLines(InputLines, at[j]) =>
                    RenamedFile(InputLines, at[j], Files[j])

-----------------------------------------------------------------------------
(* C13 (as claimed): on a "Binary files <old> and <new> differ" line,      *)
(* isBinary becomes true, each name becomes /dev/null or the side with its *)
(* a/ or b/ prefix stripped, and status becomes added if the old side is   *)
(* /dev/null, deleted if the new side is /dev/null, otherwise modified,    *)
(* except that a status an earlier rename line set stays renamed.          *)

\* the extended header of the block at d ends with a "Binary files" line
BinaryReached(ls, d) ==
    HeaderEnd(ls, d) < BlockEnd(ls, d) /\ binaryRe(ls[HeaderEnd(ls, d)]).ok

\* a rename line comes before the end of the extended header
RenamedBefore(ls, d) ==
    \E k \in (d + 1)..(HeaderEnd(ls, d) - 1) : renameFromRe(ls[k]).ok \/ renameToRe(ls[k]).ok

SideName(side, prefix) ==
    IF side = "/dev/null" THEN "/dev/null" ELSE TrimPrefix(side, prefix)

BinaryFile(ls, d, f) ==
    LET oldSide == binaryRe(ls[HeaderEnd(ls, d)]).g[1]
        newSide == binaryRe(ls[HeaderEnd(ls, d)]).g[2]
    IN  /\ f.IsBinary
        /\ f.OldName = SideName(oldSide, "a/")
        /\ f.NewName = SideName(newSide, "b/")
        /\ f.Status = IF RenamedBefore(ls, d) THEN "renamed"
                      ELSE IF oldSide = "/dev/null" THEN "added"
                      ELSE IF newSide = "/dev/null" THEN "deleted"
                      ELSE "modified"

C13_BinaryLine ==
    Returns =>
        LET at == Ascending(DiffHeaderIdx(InputLines))
        IN  \A j \in 1..Len(Files) :
                BinaryReached(InputLines, at[j]) => BinaryFile(InputLines, at[j], Files[j])

-----------------------------------------------------------------------------
(* C14: for a hunk header "@@ -O[,OL] +N[,NL] @@", the parsed hunk has     *)
(* oldStart = O, newStart = N, oldLines = OL when written and 1 when the   *)
(* count is left out, newLines = NL when written and 1 when left out; a    *)
(* written count of 0 stays 0.                                             *)

\* the number a string of digits writes
Written(text) == DigitsValue(StripZeros(text))

NumbersOf(line, h) ==
    LET g == hunkHeaderRe(line).g
    IN  /\ h.OldStart = Written(g[1])
        /\ h.NewStart = Written(g[3])
        /\ h.OldLines = (IF g[2] = "" THEN 1 ELSE Written(g[2]))
        /\ h.NewLines = (IF g[4] = "" THEN 1 ELSE Written(g[4]))

C14_HeaderNumbers ==
    Returns =>
        LET at == Ascending(HunkHeaderIdx(InputLines))
            hs == AllHunks(Files)
        IN  /\ Len(hs) = Len(at)
            /\ \A j \in 1..Len(at) : NumbersOf(InputLines[at[j]], hs[j])

\* a header with a written count of 0 and a count left out was parsed
C14_Witness ==
    /\ Returns
    /\ \E j \in 1..Len(AllHunks(Files)) :
         LET h == AllHunks(Files)[j]
         IN  /\ InputLines[Ascending(HunkHeaderIdx(InputLines))[j]] = "@@ -07,0 +10 @@  g  "
             /\ h.OldStart = 7 /\ h.OldLines = 0 /\ h.NewStart = 10 /\ h.NewLines = 1

-----------------------------------------------------------------------------
(* C15: Hunk.header is "@@ -O[,OL] +N[,NL] @@" with every number exactly   *)
(* as written in the input line and a count left out when the input left   *)
(* it out, followed by one space and the whitespace-trimmed trailing text  *)
(* when that text is non-empty (and by nothing otherwise).                 *)

\* the input line up to its second "@@", then the trimmed trailing text
HeaderAsWritten(line) ==
    LET trail == hunkHeaderRe(line).g[5]
    IN  Sub(line, 1, Len(line) - Len(trail))
        \o (IF TrimSpace(trail) # "" THEN " " \o TrimSpace(trail) ELSE "")

C15_HeaderText ==
    Returns =>
        LET at == Ascending(HunkHeaderIdx(InputLines))
            hs == AllHunks(Files)
        IN  /\ Len(hs) = Len(at)
            /\ \A j \in 1..Len(at) : hs[j].Header = HeaderAsWritten(InputLines[at[j]])

\* headers with leading zeros and padded text, with blank text, and with
\* text that touches the "@@" were rebuilt
C15_Witness ==
    /\ Returns
    /\ \E j \in 1..Len(AllHunks(Files)) : AllHunks(Files)[j].Header = "@@ -07,0 +10 @@ g"
    /\ \E j \in 1..Len(AllHunks(Files)) :
         /\ AllHunks(Files)[j].Header = "@@ -1 +1 @@"
         /\ InputLines[Ascending(HunkHeaderIdx(InputLines))[j]] = "@@ -1 +1 @@ "
    /\ \E j \in 1..Len(AllHunks(Files)) : AllHunks(Files)[j].Header = "@@ -3 +4,5 @@ x"

-----------------------------------------------------------------------------
(* C16: within a file block (from its diff header up to the next line that *)
(* starts with "diff --git " or the end of input), every line matching the *)
(* hunk header pattern starts exactly one Hunk of that file, and the       *)
(* file's hunks are in text order: as many hunks as such lines.            *)

\* hunk h was started by line k: it bears that header and its lines are
\* read off the lines that follow
StartedBy(ls, k, h) ==
    /\ h.Header = HeaderAsWritten(ls[k])
    /\ Len(h.Lines) <= BodyEnd(ls, k) - k - 1
    /\ \A n \in 1..Len(h.Lines) :
         h.Lines[n].Type = TypeOf(ls[k + n]) /\ h.Lines[n].Content = From(ls[k + n], 1)

C16_HunkPerHeader ==
    pc = "parsed" =>
        LET at == Ascending(DiffHeaderIdx(InputLines))
        IN  \A j \in 1..Len(Files) :
                LET hh == Ascending(HunkHeadersIn(InputLines, at[j]))
                IN  /\ Len(Files[j].Hunks) = Len(hh)
                    /\ \A n \in 1..Len(hh) :
                         StartedBy(InputLines, hh[n], Files[j].Hunks[n])

\* a file with two different hunks, the first with a body line, was returned
C16_Witness ==
    /\ Returns
    /\ \E j \in 1..Len(Files) :
         /\ Len(Files[j].Hunks) = 2
         /\ Files[j].Hunks[1].Header = "@@ -2,2 +3,0 @@ f"
         /\ Len(Files[j].Hunks[1].Lines) = 1
         /\ Files[j].Hunks[2].Header = "@@ -1 +1 @@"

-----------------------------------------------------------------------------
(* C17: inside a hunk body, a line starting with "\ No newline at end of   *)
(* file" adds no LineRecord, changes neither line counter and does not end *)
(* the hunk: Parse returns what it returns for the same input with those   *)
(* marker lines removed.                                                   *)

IsMarker(line) == HasPrefix(line, "\\ No newline at end of file")

\* the position after the body lines and markers that follow the header at k
MarkedBodyEnd(ls, k) ==
    Min({j \in (k + 1)..Len(ls) : ~IsBodyLine(ls[j]) /\ ~IsMarker(ls[j])} \cup {Len(ls) + 1})

\* line m is a marker inside the body of a hunk
BodyMarkerAt(ls, m) ==
    /\ IsMarker(ls[m])
    /\ \E k \in HunkHeaderIdx(ls) : k < m /\ m < MarkedBodyEnd(ls, k)

\* the lines of ls without the markers inside hunk bodies
WithoutBodyMarkers(ls) ==
    LET keep == Ascending({k \in 1..Len(ls) : ~BodyMarkerAt(ls, k)})
    IN  [n \in 1..Len(keep) |-> ls[keep[n]]]

C17_MarkerIgnored ==
    pc = "parsed" => ret = ParseLines(WithoutBodyMarkers(InputLines))

\* a hunk with a line before and a line after a marker was returned
C17_Witness ==
    /\ Returns
    /\ \E m \in 2..(Len(InputLines) - 1) :
         /\ BodyMarkerAt(InputLines, m)
         /\ IsBodyLine(InputLines[m - 1]) /\ IsBodyLine(InputLines[m + 1])
    /\ \E j \in 1..Len(AllHunks(Files)) :
         /\ Len(AllHunks(Files)[j].Lines) = 2
         /\ AllHunks(Files)[j].Lines[2].NewNum = 2

-----------------------------------------------------------------------------
(* C18: when a hunk body reaches an empty line, or a line whose first      *)
(* character is none of ' ', '+', '-' (and that is no marker, no "@@ "     *)
(* line and no "diff --git " line), the hunk ends there, keeps the         *)
(* LineRecords collected so far, is appended to its file, and Parse        *)
(* continues and returns no error.                                         *)

\* a line that ends a hunk body without starting anything
IsStray(line) ==
    /\ ~IsBodyLine(line) /\ ~IsMarker(line)
    /\ ~HasPrefix(line, "@@ ") /\ ~HasPrefix(line, "diff --git ")

\* the body of the hunk whose header is line k ends at a stray line
EndsAtStray(ls, k) == MarkedBodyEnd(ls, k) <= Len(ls) /\ IsStray(ls[MarkedBodyEnd(ls, k)])

\* the body lines between the header at k and the line that ends the body
BodyBefore(ls, k) ==
    SelectSeq(SubSeq(ls, k + 1, MarkedBodyEnd(ls, k) - 1), LAMBDA l : ~IsMarker(l))

KeepsCollected(ls, k, h) ==
    /\ Len(h.Lines) = Len(BodyBefore(ls, k))
    /\ \A n \in 1..Len(h.Lines) :
         /\ h.Lines[n].Type = TypeOf(BodyBefore(ls, k)[n])
         /\ h.Lines[n].Content = From(BodyBefore(ls, k)[n], 1)

\* no number of a hunk header of a file block is out of range
NumbersConvert(ls) == \A k \in HunkHeaderIdx(ls) : ~HasBadNumber(ls[k])

C18_StrayLineEndsHunk ==
    (pc = "parsed" /\ NumbersConvert(InputLines)) =>
        LET at == Ascending(HunkHeaderIdx(InputLines))
            hs == AllHunks(Files)
        IN  /\ ret.err = ""
            /\ Len(Files) = Cardinality(DiffHeaderIdx(InputLines))
            /\ Len(hs) = Len(at)
            /\ \A j \in 1..Len(at) :
                 EndsAtStray(InputLines, at[j]) => KeepsCollected(InputLines, at[j], hs[j])

\* a hunk cut short by an unknown prefix kept its line, and the hunk after
\* the stray line was parsed too
C18_Witness ==
    /\ Returns
    /\ Len(AllHunks(Files)) = 2
    /\ Len(AllHunks(Files)[1].Lines) = 1
    /\ LET k == Ascending(HunkHeaderIdx(InputLines))[1]
       IN  EndsAtStray(InputLines, k) /\ InputLines[MarkedBodyEnd(InputLines, k)] = "junk"

-----------------------------------------------------------------------------
(* C19 (as claimed): in every parsed hunk, add lines have oldNum 0         *)
(* (absent) and delete lines have newNum 0 (absent), while every context   *)
(* and delete line has oldNum >= 1 and every context and add line has      *)
(* newNum >= 1, so that the number is present in the serialized output.    *)

AbsentNumbers(h) ==
    \A n \in 1..Len(h.Lines) :
        /\ h.Lines[n].Type = "add" => h.Lines[n].OldNum = 0
        /\ h.Lines[n].Type = "delete" => h.Lines[n].NewNum = 0

OldNumbersPresent(h) ==
    \A n \in 1..Len(h.Lines) :
        h.Lines[n].Type \in {"context", "delete"} => h.Lines[n].OldNum >= 1

NewNumbersPresent(h) ==
    \A n \in 1..Len(h.Lines) :
        h.Lines[n].Type \in {"context", "add"} => h.Lines[n].NewNum >= 1

C19_NumbersPresent ==
    pc = "parsed" =>
        \A j \in 1..Len(AllHunks(Files)) :
            /\ AbsentNumbers(AllHunks(Files)[j])
            /\ OldNumbersPresent(AllHunks(Files)[j])
            /\ NewNumbersPresent(AllHunks(Files)[j])

(* C19 (amended): in every parsed hunk, add lines have oldNum 0 (absent)   *)
(* and delete lines have newNum 0 (absent), while every context and delete *)
(* line has oldNum >= 1 when the hunk's oldStart is >= 1, and every        *)
(* context and add line has newNum >= 1 when its newStart is >= 1.         *)
C19_NumbersPresentFromOne ==
    pc = "parsed" =>
        \A j \in 1..Len(AllHunks(Files)) :
            /\ AbsentNumbers(AllHunks(Files)[j])
            /\ AllHunks(Files)[j].OldStart >= 1 => OldNumbersPresent(AllHunks(Files)[j])
            /\ AllHunks(Files)[j].NewStart >= 1 => NewNumbersPresent(AllHunks(Files)[j])

\* a hunk that starts at line 0 of the new side only, with a delete and an
\* add line, was returned
C19_Witness ==
    /\ Returns
    /\ \E j \in 1..Len(AllHunks(Files)) :
         LET h == AllHunks(Files)[j]
         IN  /\ h.OldStart = 1 /\ h.NewStart = 0
             /\ Len(h.Lines) = 2
             /\ h.Lines[1].Type = "delete" /\ h.Lines[1].OldNum = 1
             /\ h.Lines[2].Type = "add" /\ h.Lines[2].OldNum = 0

-----------------------------------------------------------------------------
(* C20: for a maximal run of d consecutive delete records directly         *)
(* followed by a maximal run of a consecutive add records (a may be 0),    *)
(* the split aligner emits exactly max(d, a) rows; row j carries           *)
(* deletes[j] on the old side if j < d and an empty old cell otherwise,    *)
(* and adds[j] on the new side if j < a and an empty new cell otherwise;   *)
(* no row has both sides empty.                                            *)

\* the positions in ls where a maximal run of delete records starts
DeleteRunStarts(ls) ==
    {s \in 1..Len(ls) : ls[s].type = "delete" /\ (s = 1 \/ ls[s - 1].type # "delete")}

\* the length of the maximal run of records of a type that starts at s
RunLen(ls, s, type) ==
    Min({n \in 0..(Len(ls) - s + 1) : s + n > Len(ls) \/ ls[s + n].type # type})

\* the records a row shows, old side and new side
RowSources(r) == {tbody[r].oldSrc, tbody[r].newSrc} \ {0}

\* the rows r .. r + max(d, a) - 1 pair the run of d deletes at s with the
\* a adds after it, and no row around them shows a record of the two runs
PairedAt(ls, s, d, a, r) ==
    LET n == IF d > a THEN d ELSE a
    IN  /\ r + n - 1 <= Len(tbody)
        /\ \A j \in 0..(n - 1) :
             /\ tbody[r + j].oldSrc = (IF j < d THEN s + j ELSE 0)
             /\ tbody[r + j].newSrc = (IF j < a THEN s + d + j ELSE 0)
             /\ tbody[r + j].className # "line-context"
             /\ ShowsSources(r + j)
        /\ \A q \in 2..Len(tbody) :
             (q < r \/ q > r + n - 1) => RowSources(q) \cap (s..(s + d + a - 1)) = {}

C20_PairedRows ==
    rpc = "rendered" =>
        /\ \A s \in DeleteRunStarts(hunk.lines) :
             \E r \in 2..Len(tbody) :
                 PairedAt(hunk.lines, s, RunLen(hunk.lines, s, "delete"),
                          RunLen(hunk.lines, s + RunLen(hunk.lines, s, "delete"), "add"), r)
        /\ \A r \in 2..Len(tbody) :
             /\ RowSources(r) # {}
             /\ ~(/\ SubSeq(tbody[r].cells, 1, 2) = EmptyOldCells
                  /\ SubSeq(tbody[r].cells, 4, 5) = EmptyNewCells)

\* one delete followed by two adds was rendered as two rows, and so was a
\* run of two deletes followed by no add
C20_Witness ==
    /\ rpc = "rendered"
    /\ Len(hunk.lines) = 5
    /\ [k \in 1..5 |-> hunk.lines[k].type] = <<"delete", "add", "add", "delete", "delete">>
    /\ Len(tbody) = 5
    /\ tbody[3].oldSrc = 0 /\ tbody[3].newSrc = 3
    /\ tbody[5].oldSrc = 5 /\ tbody[5].newSrc = 0

-----------------------------------------------------------------------------
(* C21: each context LineRecord produces exactly one split-view Row that   *)
(* carries that record on both sides: its oldNum and content in the old    *)
(* cells, its newNum and the same content in the new cells.                *)

\* row r shows the context record l on both sides
ContextShown(r, l) ==
    /\ tbody[r].className = "line-context"
    /\ Len(tbody[r].cells) = 5
    /\ tbody[r].cells[1] = Cell("line-num old-num", NumText(l.oldNum))
    /\ tbody[r].cells[2] = Cell("line-content old-content", escapeHtml(l.content))
    /\ tbody[r].cells[4] = Cell("line-num new-num", NumText(l.newNum))
    /\ tbody[r].cells[5] = Cell("line-content new-content", escapeHtml(l.content))

C21_ContextOnBothSides ==
    rpc = "rendered" =>
        \A k \in 1..Len(hunk.lines) :
            hunk.lines[k].type = "context" =>
                /\ Cardinality(RowsOf(k)) = 1
                /\ \A r \in RowsOf(k) :
                     /\ tbody[r].oldSrc = k /\ tbody[r].newSrc = k
                     /\ ContextShown(r, hunk.lines[k])

\* a context line whose two numbers differ was rendered
C21_Witness ==
    /\ rpc = "rendered"
    /\ \E r \in 2..Len(tbody) :
         /\ tbody[r].className = "line-context"
         /\ tbody[r].cells[1].text = "1"
         /\ tbody[r].cells[4].text = "3"
         /\ tbody[r].cells[2].text = "c" /\ tbody[r].cells[5].text = "c"

-----------------------------------------------------------------------------
(* C22: an add LineRecord that does not belong to the add run directly     *)
(* following a delete run (it starts the hunk, or follows a context line   *)
(* or another standalone add) produces one Row with an empty old side and  *)
(* the add on the new side; it is never paired with a delete run that      *)
(* comes after it.                                                         *)

\* the position of the last record before k that is no add, 0 for none
LastNonAddBefore(ls, k) == Max({j \in 1..(k - 1) : ls[j].type # "add"} \cup {0})

StandaloneAdd(ls, k) ==
    /\ ls[k].type = "add"
    /\ LastNonAddBefore(ls, k) = 0 \/ ls[LastNonAddBefore(ls, k)].type = "context"

C22_StandaloneAdd ==
    rpc = "rendered" =>
        \A k \in 1..Len(hunk.lines) :
            StandaloneAdd(hunk.lines, k) =>
                /\ Cardinality(RowsOf(k)) = 1
                /\ \A r \in RowsOf(k) :
                     /\ tbody[r].oldSrc = 0 /\ tbody[r].newSrc = k
                     /\ SubSeq(tbody[r].cells, 1, 2) = EmptyOldCells
                     /\ tbody[r].cells[4].text = NumText(hunk.lines[k].newNum)
                     /\ tbody[r].cells[5].text = escapeHtml(hunk.lines[k].content)

\* two standalone adds directly before a delete run got rows of their own
C22_Witness ==
    /\ rpc = "rendered"
    /\ Len(hunk.lines) = 3
    /\ [k \in 1..3 |-> hunk.lines[k].type] = <<"add", "add", "delete">>
    /\ Len(tbody) = 4
    /\ tbody[2].oldSrc = 0 /\ tbody[3].oldSrc = 0
    /\ tbody[4].oldSrc = 3 /\ tbody[4].newSrc = 0

-----------------------------------------------------------------------------
(* C29: for every hunk, the old-side cells of the split-view rows, read    *)
(* from top to bottom, are exactly the hunk's context and delete lines in  *)
(* their original order, and the new-side cells exactly its context and    *)
(* add lines in their original order, so the displayed old and new line    *)
(* numbers each increase down the table.                                   *)

RECURSIVE FilledSources(_, _)
\* the records the rows from r on show on a side, top to bottom
FilledSources(r, side) ==
    IF r > Len(tbody) THEN <<>>
    ELSE (IF side = "old" /\ tbody[r].oldSrc > 0 THEN <<tbody[r].oldSrc>>
          ELSE IF side = "new" /\ tbody[r].newSrc > 0 THEN <<tbody[r].newSrc>>
          ELSE <<>>) \o FilledSources(r + 1, side)

Increasing(ns) == \A n \in 1..(Len(ns) - 1) : ns[n] < ns[n + 1]

C29_SidesInOrder ==
    rpc = "rendered" =>
        LET ls == hunk.lines
            olds == FilledSources(2, "old")
            news == FilledSources(2, "new")
        IN  /\ olds = Ascending({k \in 1..Len(ls) : ls[k].type \in {"context", "delete"}})
            /\ news = Ascending({k \in 1..Len(ls) : ls[k].type \in {"context", "add"}})
            /\ \A r \in 2..Len(tbody) : ShowsSources(r)
            /\ Increasing([n \in 1..Len(olds) |-> ls[olds[n]].oldNum])
            /\ Increasing([n \in 1..Len(news) |-> ls[news[n]].newNum])

\* two deletes paired with two different adds, then a context line
C29_Witness ==
    /\ rpc = "rendered"
    /\ Len(tbody) = 4
    /\ tbody[2].oldSrc = 1 /\ tbody[2].newSrc = 3
    /\ tbody[3].oldSrc = 2 /\ tbody[3].newSrc = 4
    /\ tbody[2].cells[5].text = "a" /\ tbody[3].cells[5].text = "&lt;b&gt;"
    /\ tbody[4].className = "line-context"

-----------------------------------------------------------------------------
(* C28: after a hunk has been ended by an empty line or an unrecognized    *)
(* prefix, every following line up to the next line that matches the hunk  *)
(* header pattern or starts with "diff --git " is discarded: it appears in *)
(* no hunk of any file, even when it starts with ' ', '+' or '-'.  Parse   *)
(* returns what it returns for the input without those lines.              *)

\* the first position after e where parsing takes up a hunk or a file again
ResumesAt(ls, e) ==
    Min({j \in (e + 1)..Len(ls) : hunkHeaderRe(ls[j]).ok \/ HasPrefix(ls[j], "diff --git ")}
        \cup {Len(ls) + 1})

\* line m follows the stray line that ended a hunk, before parsing resumes
DiscardedAt(ls, m) ==
    \E k \in HunkHeaderIdx(ls) :
        /\ EndsAtStray(ls, k)
        /\ MarkedBodyEnd(ls, k) < m /\ m < ResumesAt(ls, MarkedBodyEnd(ls, k))

WithoutDiscarded(ls) ==
    LET keep == Ascending({k \in 1..Len(ls) : ~DiscardedAt(ls, k)})
    IN  [n \in 1..Len(keep) |-> ls[keep[n]]]

\* the number of LineRecords in all hunks
RECURSIVE LineCount(_)
LineCount(hs) == IF Len(hs) = 0 THEN 0 ELSE Len(hs[1].Lines) + LineCount(Tail(hs))

C28_DiscardedAfterStray ==
    pc = "parsed" =>
        /\ ret = ParseLines(WithoutDiscarded(InputLines))
        /\ ret.err = "" =>
             LineCount(AllHunks(Files)) =
                 Cardinality({m \in 1..Len(InputLines) :
                     /\ IsBodyLine(InputLines[m]) /\ ~DiscardedAt(InputLines, m)
                     /\ \E k \in HunkHeaderIdx(InputLines) :
                          k < m /\ m < MarkedBodyEnd(InputLines, k)})

\* an add line after the unknown prefix that ended the hunk is in no hunk
C28_Witness ==
    /\ Returns
    /\ \E m \in 1..Len(InputLines) :
         /\ DiscardedAt(InputLines, m)
         /\ InputLines[m] = "+a"
         /\ InputLines[m - 1] = "junk"
    /\ LineCount(AllHunks(Files)) = 1
    /\ AllHunks(Files)[1].Lines[1].Type = "context"

-----------------------------------------------------------------------------
(* C27: Parse terminates on every finite input and the split aligner       *)
(* terminates on every finite hunk: the line cursor never moves backward,  *)
(* and every iteration of every loop either advances the cursor by at      *)
(* least one line or leaves the loop.  Termination is the strict decrease  *)
(* of a natural number with every iteration.                               *)

\* how far out a loop lies: a loop is only ever left for one further out
LoopDepth(loop) ==
    CASE loop = "return" -> 0 [] loop = "files" -> 1 [] loop = "hunks" -> 2
      [] loop = "header" -> 3 [] loop = "body" -> 3

\* the lines left to read, then the loops left to leave
ParserRank(p) == 4 * (Len(InputLines) - p.i) + LoopDepth(p.loop)

\* an iteration of a parser loop: the cursor stays within the input, does
\* not go back, and advances unless the loop is left
ParserAdvances ==
    (pc = "parsing" /\ pc' = "parsing" /\ iters' # iters) =>
        /\ pstate'.i >= pstate.i
        /\ pstate'.i <= Len(InputLines)
        /\ pstate'.i > pstate.i \/ pstate'.loop # pstate.loop
        /\ ParserRank(pstate') < ParserRank(pstate)
        /\ ParserRank(pstate') >= 0

\* an iteration of the aligner's loop advances its cursor within the hunk
AlignerAdvances ==
    (rpc = "rendering" /\ rpc' = "rendering" /\ iters' # iters) =>
        sstate'.i > sstate.i /\ sstate'.i <= Len(hunk.lines)

C27_Terminates == [][ParserAdvances /\ AlignerAdvances]_vars

\* a parse that read every line of its input returned, and a hunk with a
\* delete run and an add run was aligned in fewer iterations than lines
C27_Witness ==
    /\ pc = "parsed" /\ ret.err = ""
    /\ pstate.loop = "return"
    /\ pstate.i = Len(InputLines)
    /\ rpc = "rendered"
    /\ Len(hunk.lines) = 2
    /\ Len(tbody) = 2
    /\ sstate.i = 2
    /\ iters = 1

-----------------------------------------------------------------------------
(* C24: a request to GET /api/diff or GET /api/commits whose X-Auth-Token  *)
(* header is not equal to the server's token is answered 403 Forbidden and *)
(* the wrapped handler never runs: no git command is executed and no diff  *)
(* or commit data is returned.  The token is fixed when the server is      *)
(* created and never changes afterwards.                                   *)

\* the request just served carried a header that is not the token
Unauthorised == http'.served /\ http'.req.token # server.token

Refused ==
    /\ http'.resp.status = 403
    /\ http'.resp.text = "Forbidden\n"
    /\ ~http'.ran
    /\ http'.cmds = <<>>
    /\ http'.parsed = <<>>
    /\ http'.resp.diff = NilResult
    /\ http'.resp.commits = <<>>

-----------------------------------------------------------------------------
(* C25: in stdin mode (server created with a non-nil pre-parsed diff) the  *)
(* diff handler returns that same pre-parsed diff for every request,       *)
(* whatever the base and target query parameters are, and the commits      *)
(* handler returns an empty list; no request ever causes a git invocation  *)
(* or a new parse.                                                         *)

StdinMode == ~server.stdinDiff.nil

-----------------------------------------------------------------------------
(* C26: GetDiff returns an error and runs no git command when base starts  *)
(* with '-', or when target is non-empty and starts with '-'; only refs    *)
(* that pass this check are ever passed to git as arguments.               *)

\* the refs the diff handler hands to GetDiff for the request just served
BaseRef == IF http.req.base = "" THEN server.config.Base ELSE http.req.base
TargetRef == IF http.req.target = "" THEN server.config.Target ELSE http.req.target

FlagLike(ref) == HasPrefix(ref, "-")

\* the refs of a `git diff --no-ext-diff base [target]` command
RefsOf(cmd) == {cmd[k] : k \in 3..Len(cmd)}

CalledGetDiff ==
    http.served /\ http.ran /\ http.req.path = "/api/diff" /\ ~StdinMode

C26_FlagLikeRefsRejected ==
    CalledGetDiff =>
        /\ (FlagLike(BaseRef) \/ (TargetRef # "" /\ FlagLike(TargetRef))) =>
               http.resp.kind = "error" /\ http.cmds = <<>>
        /\ \A k \in 1..Len(http.cmds) : \A ref \in RefsOf(http.cmds[k]) : ~FlagLike(ref)

-----------------------------------------------------------------------------
(* C23: concurrent Parse invocations share no mutable state: under every   *)
(* interleaving each invocation returns the same result it returns when    *)
(* run alone, and the package-level pattern tables are never written after *)
(* initialization.                                                         *)

\* what invocation k of the next state returns is what Parse returns for
\* its input when nothing else runs
ReturnsAsAlone(k) ==
    calls'.inv[k].at = "returned" => calls'.inv[k].ret = Parse(calls'.inv[k].input)

\* a step of one invocation leaves the locals of every other as they were
LocalsApart ==
    \A j, k \in DOMAIN calls.inv :
        (j # k /\ calls'.inv[k] # calls.inv[k]) => calls'.inv[j] = calls.inv[j]

-----------------------------------------------------------------------------
(* C30: when the base or target picker changes while an earlier diff       *)
(* request is still in flight, then once all requests have completed the   *)
(* displayed files (currentFiles and the rendered tree and diff) are the   *)
(* response for the latest picker selection, never the response of an      *)
(* earlier request that arrived later.                                     *)

\* every fetch has completed, and the one for the latest selection gave
\* its files
AllCompleted ==
    /\ browser.issued >= 1
    /\ browser.inflight = {}
    /\ ~browser.initPending
    /\ [id |-> browser.issued, ok |-> TRUE] \in browser.settled

LatestSelection == FilesFor(browser.base, browser.target)

C30_LatestSelectionShown ==
    AllCompleted =>
        /\ browser.currentFiles = LatestSelection
        /\ browser.tree = Shown(LatestSelection)
        /\ browser.content = Shown(LatestSelection)

=============================================================================
